---- MODULE Spec2Model ----
(***************************************************************************)
(* Product matching (DiscountMate): brand blocking, top-K candidate        *)
(* retrieval, two-mode ensemble scoring and threshold+margin acceptance,   *)
(* followed by the per-brand aggregation.                                  *)
(*                                                                         *)
(* Scales.  The three metrics CHAR, JACC, COS are integers 0..100 (the     *)
(* value times 100).  The ensemble weights are integers 0..100 (the weight *)
(* times 100), so a score is an integer 0..10000 (the score times 10000).  *)
(* Thresholds and margins are on the score scale: 0.90 is 9000.            *)
(***************************************************************************)
EXTENDS Integers, Sequences, FiniteSets, TLC

VARIABLES
    masters,     \* sequence of MasterProduct rows {id, brand_raw}
    scraped,     \* sequence of ScrapedProduct rows {id, brand_raw}
    metric,      \* [scraped id -> [master id -> {char, jacc, cos}]], the metric values
    cfg,         \* the resolved configuration object
    pc,          \* phase of the run: "config", "config_error", "start",
                 \* "processing", "done"
    blocks,      \* brand_clean -> (master_subset, scraped_subset)
    selected,    \* the processed brands, in processing order
    worker,      \* brand -> state of the block's worker
    results,     \* the MatchResult list
    summary,     \* the BrandSummary map
    jcall,       \* a call of the JACC metric: the two canon texts and the value
    uri,         \* process.env.MONGO_URI is defined
    products,    \* the documents of DiscountMate_DB.products, in natural order
    pricings,    \* the documents of DiscountMate_DB.product_pricings
    client,      \* the module's MongoClient (0: not set)
    connected,   \* the MongoClients whose connect() has resolved
    clientsMade, \* number of MongoClients constructed
    colesCollection,            \* cached handle: the client it belongs to (0: not set)
    productPricingsCollection,  \* cached handle: the client it belongs to (0: not set)
    req,         \* request -> the request, its position and its local variables
    resp,        \* request -> the responses sent for it
    hero,        \* ProductHeroSection: its productId, its state, its pending effect
    fetches      \* the calls of fetchProduct, in the order they started

jaccVars == <<jcall>>

dbVars == <<uri, products, pricings>>

cacheVars == <<client, connected, clientsMade, colesCollection, productPricingsCollection>>

serverVars == <<dbVars, cacheVars, req, resp>>

heroVars == <<hero, fetches>>

vars == <<masters, scraped, metric, cfg, pc, blocks, selected, worker, results, summary,
          jaccVars, serverVars, heroVars>>

-----------------------------------------------------------------------------
(* Bounds of the model *)

NumMasters == 2
NumScraped == 3

(* Program constants: ensemble weights and defaults of the configuration *)

TRUE_W_CHAR == 50
TRUE_W_JACC == 25
TRUE_W_COS == 25
VARIANT_W_CHAR == 30
VARIANT_W_JACC == 20
VARIANT_W_COS == 50

DEFAULT_TOP_K == 10
DEFAULT_TRUE_THRESHOLD == 9000
DEFAULT_TRUE_MARGIN == 500
DEFAULT_VARIANT_THRESHOLD == 8800
DEFAULT_VARIANT_MARGIN == 300

ScoreOne == 100 * 100   \* the score 1.0

-----------------------------------------------------------------------------
(* Generic helpers *)

Min(a, b) == IF a <= b THEN a ELSE b

Range(f) == {f[i] : i \in DOMAIN f}

RECURSIVE SeqOfSet(_)
\* the elements of a set of integers as an ascending sequence
SeqOfSet(S) ==
    IF S = {} THEN <<>>
    ELSE LET x == CHOOSE y \in S : \A z \in S : y <= z
         IN <<x>> \o SeqOfSet(S \ {x})

-----------------------------------------------------------------------------
(* Brand normalization: trim, case-fold, collapse internal whitespace.     *)
(* A brand string is a sequence of one-character strings.                  *)

Chars == <<" ", "a", "b", "c">>

Fold(c) == CASE c = "A" -> "a" [] c = "B" -> "b" [] c = "C" -> "c" [] OTHER -> c

CharRank(c) == CHOOSE i \in 1..Len(Chars) : Chars[i] = c

RECURSIVE Collapse(_, _)
\* case-folds, drops leading spaces and every space that follows a space
Collapse(s, prevSpace) ==
    IF s = <<>> THEN <<>>
    ELSE IF Head(s) = " "
         THEN IF prevSpace THEN Collapse(Tail(s), TRUE)
              ELSE <<" ">> \o Collapse(Tail(s), TRUE)
         ELSE <<Fold(Head(s))>> \o Collapse(Tail(s), FALSE)

TrimRight(s) ==
    IF s # <<>> /\ s[Len(s)] = " " THEN SubSeq(s, 1, Len(s) - 1) ELSE s

normalize(brand) == TrimRight(Collapse(brand, TRUE))

RECURSIVE BrandLess(_, _)
\* a < b in the ascending (lexicographic) order of brand strings
BrandLess(a, b) ==
    IF b = <<>> THEN FALSE
    ELSE IF a = <<>> THEN TRUE
    ELSE IF Head(a) # Head(b) THEN CharRank(Head(a)) < CharRank(Head(b))
    ELSE BrandLess(Tail(a), Tail(b))

-----------------------------------------------------------------------------
(* Blocking Index *)

brand_clean(row) == normalize(row.brand_raw)

EmptyBlock == [master_subset |-> {}, scraped_subset |-> {}]

BlockOf(idx, b) == IF b \in DOMAIN idx THEN idx[b] ELSE EmptyBlock

\* MalformedRecord: the record misses the field used to block it
Malformed(row) == "brand_raw" \notin DOMAIN row

\* a malformed record is excluded from its block
PutMaster(idx, row) ==
    IF Malformed(row) THEN idx
    ELSE LET b == brand_clean(row)
         IN [x \in DOMAIN idx \cup {b} |->
               IF x = b
               THEN [BlockOf(idx, b) EXCEPT !.master_subset = @ \cup {row.id}]
               ELSE idx[x]]

PutScraped(idx, row) ==
    IF Malformed(row) THEN idx
    ELSE LET b == brand_clean(row)
         IN [x \in DOMAIN idx \cup {b} |->
               IF x = b
               THEN [BlockOf(idx, b) EXCEPT !.scraped_subset = @ \cup {row.id}]
               ELSE idx[x]]

RECURSIVE BlockMasters(_, _)
BlockMasters(idx, rows) ==
    IF rows = <<>> THEN idx
    ELSE BlockMasters(PutMaster(idx, Head(rows)), Tail(rows))

RECURSIVE BlockScraped(_, _)
BlockScraped(idx, rows) ==
    IF rows = <<>> THEN idx
    ELSE BlockScraped(PutScraped(idx, Head(rows)), Tail(rows))

\* brand_clean -> (master_subset, scraped_subset) over both datasets
BlockingIndex(ms, ss) == BlockScraped(BlockMasters(<<>>, ms), ss)

\* mutant of frequency: the master rows of the brand are counted
frequency_Masters(idx, b) == Cardinality(idx[b].master_subset)

frequency(idx, b) == Cardinality(idx[b].scraped_subset)

\* mutant of Outranks: ties by brand descending
Outranks_TieDescending(idx, x, y) ==
    \/ frequency(idx, x) > frequency(idx, y)
    \/ frequency(idx, x) = frequency(idx, y) /\ BrandLess(y, x)

\* x is selected before y: higher scraped-row frequency, ties by brand ascending
Outranks(idx, x, y) ==
    \/ frequency(idx, x) > frequency(idx, y)
    \/ frequency(idx, x) = frequency(idx, y) /\ BrandLess(x, y)

RECURSIVE TopBrands(_, _, _)
\* the n first brands of pool in the Outranks order
TopBrands(idx, pool, n) ==
    IF n = 0 \/ pool = {} THEN <<>>
    ELSE LET x == CHOOSE b \in pool : \A y \in pool \ {b} : Outranks(idx, b, y)
         IN <<x>> \o TopBrands(idx, pool \ {x}, n - 1)

ScrapedBrands(idx) == {b \in DOMAIN idx : idx[b].scraped_subset # {}}

SelectBrands(idx, c) == TopBrands(idx, ScrapedBrands(idx), c.top_brands)

-----------------------------------------------------------------------------
(* Candidate Retriever *)

COS(s, m) == metric[s][m].cos
CHAR(s, m) == metric[s][m].char
JACC(s, m) == metric[s][m].jacc

\* mutant of Nearer: ties by descending master id
Nearer_TieDescending(s, m, o) ==
    \/ COS(s, m) > COS(s, o)
    \/ COS(s, m) = COS(s, o) /\ m > o

\* m is retrieved before o: higher cosine similarity, ties by ascending master id
Nearer(s, m, o) ==
    \/ COS(s, m) > COS(s, o)
    \/ COS(s, m) = COS(s, o) /\ m < o

\* mutant of MasterSubset: a block without masters falls back to all masters
MasterSubset_Fallback(idx, b) ==
    IF idx[b].master_subset # {} THEN idx[b].master_subset
    ELSE UNION {idx[x].master_subset : x \in DOMAIN idx}

\* the master rows a scraped row of block b is matched against
MasterSubset(idx, b) == idx[b].master_subset

RECURSIVE Retrieve_Nearest(_, _, _)
Retrieve_Nearest(s, pool, k) ==
    IF k = 0 \/ pool = {} THEN <<>>
    ELSE LET m == CHOOSE x \in pool : \A o \in pool \ {x} : Nearer(s, x, o)
         IN <<m>> \o Retrieve_Nearest(s, pool \ {m}, k - 1)

\* mutant of Retrieve: with k > 1 the nearest neighbour is taken for the query
\* itself and dropped from the k + 1 nearest
Retrieve_DropFirst(s, pool, k) ==
    LET n == Retrieve_Nearest(s, pool, k + 1)
    IN IF k <= 1 \/ n = <<>> THEN Retrieve_Nearest(s, pool, k) ELSE Tail(n)

RECURSIVE Retrieve_Farthest(_, _, _)
\* mutant of Retrieve: the k masters of lowest cosine similarity, lowest first
Retrieve_Farthest(s, pool, k) ==
    IF k = 0 \/ pool = {} THEN <<>>
    ELSE LET m == CHOOSE x \in pool : \A o \in pool \ {x} : Nearer(s, o, x)
         IN <<m>> \o Retrieve_Farthest(s, pool \ {m}, k - 1)

RECURSIVE Retrieve(_, _, _)
\* the top_k masters of the block's master subset for scraped row s
Retrieve(s, pool, k) ==
    IF k = 0 \/ pool = {} THEN <<>>
    ELSE LET m == CHOOSE x \in pool : \A o \in pool \ {x} : Nearer(s, x, o)
         IN <<m>> \o Retrieve(s, pool \ {m}, k - 1)

-----------------------------------------------------------------------------
(* Ensemble Scorer *)

RECURSIVE Split(_, _)
\* the set of the case-folded tokens of s, cur being the token in progress
Split(s, cur) ==
    IF s = <<>> THEN (IF cur = <<>> THEN {} ELSE {cur})
    ELSE IF Head(s) = " "
         THEN (IF cur = <<>> THEN {} ELSE {cur}) \cup Split(Tail(s), <<>>)
         ELSE Split(Tail(s), Append(cur, Fold(Head(s))))

\* the whitespace-tokenized, case-folded token set of a canon text
TokenSet(text) == Split(text, <<>>)

\* mutant of Jacc: the overlap is taken over the tokens of the first text
Jacc_OverFirst(a, b) ==
    LET A == TokenSet(a)
        B == TokenSet(b)
    IN IF A \cup B = {} THEN 0
       ELSE IF A = {} THEN 0
       ELSE (100 * Cardinality(A \cap B)) \div Cardinality(A)

\* Jaccard similarity |A n B| / |A u B| of the token sets, in hundredths; 0 when
\* the union is empty
Jacc(a, b) ==
    LET A == TokenSet(a)
        B == TokenSet(b)
    IN IF A \cup B = {} THEN 0
       ELSE (100 * Cardinality(A \cap B)) \div Cardinality(A \cup B)

true_score(char, jacc, cos) ==
    TRUE_W_CHAR * char + TRUE_W_JACC * jacc + TRUE_W_COS * cos

\* mutant of variant_score: the weight of JACC is applied to COS as well
variant_score_JaccWeight(char, jacc, cos) ==
    VARIANT_W_CHAR * char + VARIANT_W_JACC * jacc + VARIANT_W_JACC * cos

variant_score(char, jacc, cos) ==
    VARIANT_W_CHAR * char + VARIANT_W_JACC * jacc + VARIANT_W_COS * cos

CandidatePair(s, m) ==
    [scraped_id |-> s, master_id |-> m,
     cos |-> COS(s, m), jacc |-> JACC(s, m), char |-> CHAR(s, m)]

ScoredCandidate(p) ==
    [scraped_id |-> p.scraped_id, master_id |-> p.master_id,
     cos |-> p.cos, jacc |-> p.jacc, char |-> p.char,
     true_score |-> true_score(p.char, p.jacc, p.cos),
     variant_score |-> variant_score(p.char, p.jacc, p.cos)]

ScoreAll(s, cands) ==
    [i \in 1..Len(cands) |-> ScoredCandidate(CandidatePair(s, cands[i]))]

-----------------------------------------------------------------------------
(* Acceptance Decider *)

ModeScore(c, mode) == IF mode = "true" THEN c.true_score ELSE c.variant_score

\* mutant of RanksBefore: the score alone, ties keep the order of supply
RanksBefore_ScoreOnly(a, b, mode) ==
    ModeScore(a, mode) > ModeScore(b, mode)

\* a ranks before b in the mode: higher score, ties by ascending master id
RanksBefore(a, b, mode) ==
    \/ ModeScore(a, mode) > ModeScore(b, mode)
    \/ ModeScore(a, mode) = ModeScore(b, mode) /\ a.master_id < b.master_id

RECURSIVE InsertRanked(_, _, _)
\* x put into the ranked list r, before the first candidate it ranks before
InsertRanked(x, r, mode) ==
    IF r = <<>> THEN <<x>>
    ELSE IF RanksBefore(x, Head(r), mode) THEN <<x>> \o r
    ELSE <<Head(r)>> \o InsertRanked(x, Tail(r), mode)

RECURSIVE RankInto(_, _, _)
RankInto(sc, acc, mode) ==
    IF sc = <<>> THEN acc
    ELSE RankInto(Tail(sc), InsertRanked(Head(sc), acc, mode), mode)

\* the candidates in the order of the mode: a stable sort keyed by score, then
\* by ascending master id
Rank(sc, mode) == RankInto(sc, <<>>, mode)

Best(ranked, mode) == ModeScore(ranked[1], mode)

Second(ranked, mode) == IF Len(ranked) >= 2 THEN ModeScore(ranked[2], mode) ELSE 0

\* mutant of Accept: the margin must be exceeded
Accept_StrictMargin(best, second, threshold, margin) ==
    best >= threshold /\ (best - second) > margin

\* mutant of Accept: accepted when the best score does not exceed the threshold
Accept_Below(best, second, threshold, margin) ==
    best <= threshold /\ (best - second) >= margin

\* mutant of Accept: the margin is not applied
Accept_NoMargin(best, second, threshold, margin) ==
    best >= threshold

Accept(best, second, threshold, margin) ==
    best >= threshold /\ (best - second) >= margin

\* mutant of TrueAccepted: the variant threshold decides the true mode
TrueAccepted_VariantThreshold(sc, c) ==
    LET r == Rank(sc, "true")
    IN Accept(Best(r, "true"), Second(r, "true"), c.variant_threshold, c.true_margin)

TrueAccepted(sc, c) ==
    LET r == Rank(sc, "true")
    IN Accept(Best(r, "true"), Second(r, "true"), c.true_threshold, c.true_margin)

VariantAccepted(sc, c) ==
    LET r == Rank(sc, "variant")
    IN Accept(Best(r, "variant"), Second(r, "variant"),
              c.variant_threshold, c.variant_margin)

\* the MatchResult of a scraped row with a non-empty scored candidate list
MatchRow(s, sc, c) ==
    LET rt == Rank(sc, "true")
        rv == Rank(sc, "variant")
    IN [scraped_id |-> s,
        best_master_id |-> rt[1].master_id,
        best_true_score |-> Best(rt, "true"),
        second_true_score |-> Second(rt, "true"),
        true_accepted |-> TrueAccepted(sc, c),
        best_variant_master_id |-> rv[1].master_id,
        best_variant_score |-> Best(rv, "variant"),
        second_variant_score |-> Second(rv, "variant"),
        variant_accepted |-> VariantAccepted(sc, c)]

-----------------------------------------------------------------------------
(* Result Aggregator *)

ScrapedRow(id) == CHOOSE r \in Range(scraped) : r.id = id

RowsOfBrand(rs, b) ==
    {i \in DOMAIN rs : brand_clean(ScrapedRow(rs[i].scraped_id)) = b}

\* mutant of Rate: an empty block gets the rate 0
Rate_SilentZero(num, den) ==
    IF den = 0 THEN [nan |-> FALSE, num |-> 0, den |-> 1]
    ELSE [nan |-> FALSE, num |-> num, den |-> den]

\* a rate is count/scraped_count, or the explicit undefined value when the
\* count of processed rows is 0
Rate(num, den) ==
    IF den = 0 THEN [nan |-> TRUE, num |-> 0, den |-> 0]
    ELSE [nan |-> FALSE, num |-> num, den |-> den]

BrandSummary(rs, b) ==
    LET rows == RowsOfBrand(rs, b)
        n == Cardinality(rows)
    IN [brand |-> b,
        scraped_count |-> n,
        true_accept_rate |->
            Rate(Cardinality({i \in rows : rs[i].true_accepted}), n),
        variant_accept_rate |->
            Rate(Cardinality({i \in rows : rs[i].variant_accepted}), n)]

RECURSIVE Collect(_, _)
\* the workers' outputs, concatenated in processing order
Collect(w, order) ==
    IF order = <<>> THEN <<>>
    ELSE w[Head(order)].out \o Collect(w, Tail(order))

-----------------------------------------------------------------------------
(* Inputs of a run *)

\* the server is not started: no database, no client, no request
ServerIdle ==
    /\ uri = FALSE /\ products = <<>> /\ pricings = <<>>
    /\ client = 0 /\ connected = {} /\ clientsMade = 0
    /\ colesCollection = 0 /\ productPricingsCollection = 0
    /\ req = <<>> /\ resp = <<>>

\* ProductHeroSection is not rendered
HeroIdle ==
    /\ hero = [mounted |-> FALSE, resolvedProductId |-> "",
               product |-> [t |-> "null", v |-> ""], loading |-> TRUE, effect |-> FALSE]
    /\ fetches = <<>>

\* no call of the JACC metric is in progress
JaccIdle == jcall = [a |-> <<>>, b |-> <<>>, done |-> FALSE, out |-> 0]

Profile(c, j, s) == [char |-> c, jacc |-> j, cos |-> s]

ZeroProfile == Profile(0, 0, 0)

\* raw brand strings; the first two are the same brand after normalization
RawBrands ==
    { <<"A", " ", "b">>, <<"a", " ", " ", "b", " ">>, <<" ", "B">>, <<"c">> }

\* raw brand strings of the master catalogue in the pipeline specification;
\* brand "c" has scraped rows only
MasterRawBrands == { <<"A", " ", "b">>, <<" ", "B">> }

\* metric values of a pair in the pipeline specification: every master equally
\* near, or the masters of odd (of even) id nearer than the others
PipelinePatterns == {"equal", "odd", "even"}

PipelineProfile(pattern, m) ==
    IF pattern = "equal" \/ (pattern = "odd") = (m % 2 = 1)
    THEN Profile(100, 100, 100) ELSE Profile(100, 100, 64)

\* metric values of a pair in the scoring specification
ScoreProfiles ==
    { Profile(100, 100, 100), Profile(100, 100, 64), Profile(100, 100, 48),
      Profile(100, 100, 60), Profile(80, 80, 100) }

ScoreBrands == { <<"A", " ", "b">>, <<"c">> }

TopKChoices == {1, 2}
TopBrandsChoices == {1, 2}
ThresholdChoices(default) == {default, 9500}
MarginChoices(default) == {default, 9500}

\* every threshold and margin value the relational properties range over
ScoreGrid == {0, 300, 500, 8000, 8800, 9000, 9100, 9500, ScoreOne}

\* the thresholds and margins of the other mode in the independence property
ThresholdGrid == {0, 8800, 9000, 9500, ScoreOne}
MarginGrid == {0, 300, 500, 9500}

DefaultScoring ==
    [true_threshold |-> DEFAULT_TRUE_THRESHOLD, true_margin |-> DEFAULT_TRUE_MARGIN,
     variant_threshold |-> DEFAULT_VARIANT_THRESHOLD,
     variant_margin |-> DEFAULT_VARIANT_MARGIN]

Config(k, n, sc) ==
    [top_k |-> k, top_brands |-> n,
     true_threshold |-> sc.true_threshold, true_margin |-> sc.true_margin,
     variant_threshold |-> sc.variant_threshold, variant_margin |-> sc.variant_margin]

\* the state after the inputs are loaded and the configuration is resolved;
\* the metrics of a pair of different brands are never computed
Loaded(mb, sb, f, c) ==
    /\ masters = [i \in DOMAIN mb |-> [id |-> i, brand_raw |-> mb[i]]]
    /\ scraped = [i \in DOMAIN sb |-> [id |-> i, brand_raw |-> sb[i]]]
    /\ metric = [s \in DOMAIN sb |-> [m \in DOMAIN mb |->
                    IF normalize(sb[s]) = normalize(mb[m])
                    THEN f[<<s, m>>] ELSE ZeroProfile]]
    /\ cfg = c
    /\ pc = "config"
    /\ blocks = <<>>
    /\ selected = <<>>
    /\ worker = <<>>
    /\ results = <<>>
    /\ summary = <<>>
    /\ JaccIdle
    /\ ServerIdle
    /\ HeroIdle

Init ==
    \E mb \in [1..NumMasters -> MasterRawBrands], sb \in [1..NumScraped -> RawBrands] :
      \E pattern \in PipelinePatterns :
        \E n \in TopBrandsChoices :
          Loaded(mb, sb,
                 [p \in (1..NumScraped) \X (1..NumMasters) |->
                    PipelineProfile(pattern, p[2])],
                 Config(DEFAULT_TOP_K, n, DefaultScoring))

\* metric values in which the masters tie for the first scraped row only
SplitProfile(s, m) == PipelineProfile(IF s = 1 THEN "equal" ELSE "odd", m)

\* the inputs of the pipeline specification with two processed brands, the
\* masters of a block tying for every scraped row or for the first one only
InitOrder ==
    \E mb \in [1..NumMasters -> MasterRawBrands], sb \in [1..NumScraped -> RawBrands] :
      \E split \in BOOLEAN :
        Loaded(mb, sb,
               [p \in (1..NumScraped) \X (1..NumMasters) |->
                  IF split THEN SplitProfile(p[1], p[2])
                  ELSE PipelineProfile("equal", p[2])],
               Config(DEFAULT_TOP_K, 2, DefaultScoring))

InitScore ==
    \E mb \in [1..NumMasters -> ScoreBrands] :
      \E f \in [{1} \X (1..NumMasters) -> ScoreProfiles] :
        \E k \in TopKChoices,
           tt \in ThresholdChoices(DEFAULT_TRUE_THRESHOLD),
           tm \in MarginChoices(DEFAULT_TRUE_MARGIN),
           vt \in ThresholdChoices(DEFAULT_VARIANT_THRESHOLD),
           vm \in MarginChoices(DEFAULT_VARIANT_MARGIN) :
          Loaded(mb, <<<<"a", " ", " ", "b", " ">>>>, f,
                 Config(k, 1, [true_threshold |-> tt, true_margin |-> tm,
                               variant_threshold |-> vt, variant_margin |-> vm]))

\* a metric record without a cosine: the scraped row has no vector
NoVectorProfile == [char |-> 0, jacc |-> 0]

\* the master rows of the configuration specification: brand "a b" or malformed
ConfigMasterRow(i, kind) ==
    IF kind = "malformed" THEN [id |-> i]
    ELSE [id |-> i, brand_raw |-> <<"A", " ", "b">>]

\* its scraped rows: brand "a b", brand "c" (no master row), or malformed
ConfigScrapedRow(i, kind) ==
    IF kind = "malformed" THEN [id |-> i]
    ELSE IF kind = "unmatched" THEN [id |-> i, brand_raw |-> <<"c">>]
    ELSE [id |-> i, brand_raw |-> <<"a", " ", " ", "b", " ">>]

DefaultConfig == Config(DEFAULT_TOP_K, DEFAULT_TOP_K, DefaultScoring)

\* the default configuration, and the default with one parameter replaced by
\* a value below, at or above the limits of its range
ConfigChoices ==
    {DefaultConfig}
    \cup {[DefaultConfig EXCEPT !.top_k = v] : v \in {0 - 1, 0, 1}}
    \cup {[DefaultConfig EXCEPT !.top_brands = v] : v \in {0 - 1, 0, 1}}
    \cup {[DefaultConfig EXCEPT !.true_threshold = v] : v \in {0 - 100, 0, ScoreOne + 100}}
    \cup {[DefaultConfig EXCEPT !.true_margin = v] : v \in {0 - 100, ScoreOne + 100}}
    \cup {[DefaultConfig EXCEPT !.variant_threshold = v] : v \in {0 - 100, ScoreOne + 100}}
    \cup {[DefaultConfig EXCEPT !.variant_margin = v] : v \in {0 - 100, ScoreOne, ScoreOne + 100}}

\* inputs with malformed records, a brand without master rows and, when
\* degenerate, a first scraped row without a vector
InitConfig ==
    \E mk \in [1..NumMasters -> {"brand", "malformed"}],
       sk \in [1..NumScraped -> {"brand", "unmatched", "malformed"}] :
      \E degenerate \in BOOLEAN, c \in ConfigChoices :
        LET ms == [i \in 1..NumMasters |-> ConfigMasterRow(i, mk[i])]
            ss == [i \in 1..NumScraped |-> ConfigScrapedRow(i, sk[i])]
        IN
        /\ masters = ms
        /\ scraped = ss
        /\ metric = [s \in 1..NumScraped |-> [m \in 1..NumMasters |->
                        IF Malformed(ss[s]) \/ Malformed(ms[m]) THEN ZeroProfile
                        ELSE IF brand_clean(ss[s]) # brand_clean(ms[m]) THEN ZeroProfile
                        ELSE IF degenerate /\ s = 1 THEN NoVectorProfile
                        ELSE PipelineProfile("odd", m)]]
        /\ cfg = c
        /\ pc = "config"
        /\ blocks = <<>>
        /\ selected = <<>>
        /\ worker = <<>>
        /\ results = <<>>
        /\ summary = <<>>
        /\ JaccIdle
        /\ ServerIdle
        /\ HeroIdle

\* metric values of a pair in the grid specification
MetricGrid == {0, 60, 80, 100}

GridProfiles == {Profile(c, j, s) : c \in MetricGrid, j \in MetricGrid, s \in MetricGrid}

\* one scraped row and two masters of its brand, default thresholds and margins
InitGrid ==
    \E f \in [{1} \X {1, 2} -> GridProfiles] :
      \E k \in TopKChoices :
        Loaded(<< <<"A", " ", "b">>, <<"A", " ", "b">> >>,
               << <<"a", " ", " ", "b", " ">> >>, f, Config(k, 1, DefaultScoring))

-----------------------------------------------------------------------------
(* The run *)

NewWorker(idx, b) ==
    [todo |-> SeqOfSet(idx[b].scraped_subset), stage |-> "idle",
     cands |-> <<>>, scored |-> <<>>, out |-> <<>>]

InUnit(x) == x \in 0..ScoreOne

\* mutant of ValidConfig: top_k is not validated
ValidConfig_NoTopK(c) ==
    /\ InUnit(c.true_threshold) /\ InUnit(c.true_margin)
    /\ InUnit(c.variant_threshold) /\ InUnit(c.variant_margin)
    /\ c.top_brands > 0

\* every threshold and margin is within [0,1], top_k and top_brands are positive
ValidConfig(c) ==
    /\ InUnit(c.true_threshold) /\ InUnit(c.true_margin)
    /\ InUnit(c.variant_threshold) /\ InUnit(c.variant_margin)
    /\ c.top_k > 0
    /\ c.top_brands > 0

\* the configuration is validated before any block is processed; an invalid
\* one ends the run in a ConfigurationError
ValidateConfig ==
    /\ pc = "config"
    /\ pc' = IF ValidConfig(cfg) THEN "start" ELSE "config_error"
    /\ UNCHANGED <<jaccVars, serverVars, heroVars, masters, scraped, metric, cfg, blocks, selected, worker, results, summary>>

\* Blocking Index: partition both datasets, select the processed brands
BuildBlockingIndex ==
    /\ pc = "start"
    /\ LET idx == BlockingIndex(masters, scraped)
           sel == SelectBrands(idx, cfg)
       IN /\ blocks' = idx
          /\ selected' = sel
          /\ worker' = [b \in Range(sel) |-> NewWorker(idx, b)]
    /\ pc' = "processing"
    /\ UNCHANGED <<jaccVars, serverVars, heroVars, masters, scraped, metric, cfg, results, summary>>

\* RetrievalFailure: the row has no vector in the vocabulary of the block, its
\* cosine to the masters of the block is not defined
RetrievalFails(s, pool) == \E m \in pool : "cos" \notin DOMAIN metric[s][m]

\* a retrieval failure degrades to zero candidates for the row
RetrieveOrDegrade(s, pool, k) ==
    IF RetrievalFails(s, pool) THEN <<>> ELSE Retrieve(s, pool, k)

ZeroFilled(s) ==
    [scraped_id |-> s, best_master_id |-> 0, best_true_score |-> 0,
     second_true_score |-> 0, true_accepted |-> FALSE,
     best_variant_master_id |-> 0, best_variant_score |-> 0,
     second_variant_score |-> 0, variant_accepted |-> FALSE]

\* mutant of RetrieveCandidates: a row with zero candidates gets a zero-filled,
\* rejected MatchResult
RetrieveCandidates_ZeroFilled(b) ==
    /\ pc = "processing"
    /\ worker[b].stage = "idle"
    /\ worker[b].todo # <<>>
    /\ LET s == Head(worker[b].todo)
           c == Retrieve(s, MasterSubset(blocks, b), cfg.top_k)
       IN worker' = IF c = <<>>
                    THEN [worker EXCEPT ![b].todo = Tail(@),
                                        ![b].out = Append(@, ZeroFilled(s))]
                    ELSE [worker EXCEPT ![b].cands = c, ![b].stage = "retrieved"]
    /\ UNCHANGED <<jaccVars, serverVars, heroVars, masters, scraped, metric, cfg, pc, blocks, selected, results, summary>>

\* Candidate Retriever, for the next scraped row of block b; a row with zero
\* candidates is excluded from result production
RetrieveCandidates(b) ==
    /\ pc = "processing"
    /\ worker[b].stage = "idle"
    /\ worker[b].todo # <<>>
    /\ LET s == Head(worker[b].todo)
           c == RetrieveOrDegrade(s, MasterSubset(blocks, b), cfg.top_k)
       IN worker' = IF c = <<>>
                    THEN [worker EXCEPT ![b].todo = Tail(@)]
                    ELSE [worker EXCEPT ![b].cands = c, ![b].stage = "retrieved"]
    /\ UNCHANGED <<jaccVars, serverVars, heroVars, masters, scraped, metric, cfg, pc, blocks, selected, results, summary>>

\* Ensemble Scorer, for the candidates of the current row of block b
ScoreCandidates(b) ==
    /\ pc = "processing"
    /\ worker[b].stage = "retrieved"
    /\ worker' = [worker EXCEPT
                    ![b].scored = ScoreAll(Head(worker[b].todo), worker[b].cands),
                    ![b].stage = "scored"]
    /\ UNCHANGED <<jaccVars, serverVars, heroVars, masters, scraped, metric, cfg, pc, blocks, selected, results, summary>>

\* Acceptance Decider, for the current row of block b
DecideRow(b) ==
    /\ pc = "processing"
    /\ worker[b].stage = "scored"
    /\ worker' = [worker EXCEPT
                    ![b].out = Append(@, MatchRow(Head(worker[b].todo),
                                                  worker[b].scored, cfg)),
                    ![b].todo = Tail(@),
                    ![b].cands = <<>>,
                    ![b].scored = <<>>,
                    ![b].stage = "idle"]
    /\ UNCHANGED <<jaccVars, serverVars, heroVars, masters, scraped, metric, cfg, pc, blocks, selected, results, summary>>

WorkerDone(b) == worker[b].stage = "idle" /\ worker[b].todo = <<>>

\* mutant of Aggregate: the collector does not wait for the block workers
Aggregate_NoBarrier ==
    /\ pc = "processing"
    /\ LET rs == Collect(worker, selected)
       IN /\ results' = rs
          /\ summary' = [b \in Range(selected) |-> BrandSummary(rs, b)]
    /\ pc' = "done"
    /\ UNCHANGED <<jaccVars, serverVars, heroVars, masters, scraped, metric, cfg, blocks, selected, worker>>

\* Result Aggregator: a single step after all block workers finish
Aggregate ==
    /\ pc = "processing"
    /\ \A b \in DOMAIN worker : WorkerDone(b)
    /\ LET rs == Collect(worker, selected)
       IN /\ results' = rs
          /\ summary' = [b \in Range(selected) |-> BrandSummary(rs, b)]
    /\ pc' = "done"
    /\ UNCHANGED <<jaccVars, serverVars, heroVars, masters, scraped, metric, cfg, blocks, selected, worker>>

Next ==
    \/ ValidateConfig
    \/ BuildBlockingIndex
    \/ \E b \in DOMAIN worker : RetrieveCandidates(b)
    \/ \E b \in DOMAIN worker : ScoreCandidates(b)
    \/ \E b \in DOMAIN worker : DecideRow(b)
    \/ Aggregate

Spec == Init /\ [][Next]_vars

SpecScore == InitScore /\ [][Next]_vars

\* no pipeline run is loaded
PipelineIdle ==
    /\ masters = <<>> /\ scraped = <<>> /\ metric = <<>>
    /\ cfg = DefaultConfig
    /\ pc = "idle"
    /\ blocks = <<>> /\ selected = <<>> /\ worker = <<>>
    /\ results = <<>> /\ summary = <<>>

\* the canon texts the JACC metric is applied to
MaxTextLen == 3

TextChars == {"A", "a", "b", " "}

Texts == UNION {[1..n -> TextChars] : n \in 0..MaxTextLen}

InitJacc ==
    /\ PipelineIdle
    /\ ServerIdle
    /\ HeroIdle
    /\ \E a \in Texts, b \in Texts :
         jcall = [a |-> a, b |-> b, done |-> FALSE, out |-> 0]

\* the Ensemble Scorer computes JACC of the two canon texts
ComputeJacc ==
    /\ ~jcall.done
    /\ jcall' = [jcall EXCEPT !.done = TRUE, !.out = Jacc(jcall.a, jcall.b)]
    /\ UNCHANGED <<masters, scraped, metric, cfg, pc, blocks, selected, worker,
                   results, summary, serverVars, heroVars>>

NextJacc == ComputeJacc

SpecJacc == InitJacc /\ [][NextJacc]_vars

SpecConfig == InitConfig /\ [][Next]_vars

SpecOrder == InitOrder /\ [][Next]_vars

SpecGrid == InitGrid /\ [][Next]_vars

-----------------------------------------------------------------------------
(* Vocabulary of the properties *)

\* every MatchResult produced so far: by a block worker or in the final list
AllResults ==
    UNION {Range(worker[b].out) : b \in DOMAIN worker} \cup Range(results)

RowBrand(s) == brand_clean(ScrapedRow(s))

\* the candidates of scraped row s when top_k is k, and their scores under c
CandidatesAt(s, k) == Retrieve(s, MasterSubset(blocks, RowBrand(s)), k)

Candidates(s) == CandidatesAt(s, cfg.top_k)

ResultUnder(s, c) == MatchRow(s, ScoreAll(s, CandidatesAt(s, c.top_k)), c)

\* the mode's ensemble score of candidate m of row s, from the weights
PairScore(s, m, mode) ==
    IF mode = "true"
    THEN TRUE_W_CHAR * CHAR(s, m) + TRUE_W_JACC * JACC(s, m) + TRUE_W_COS * COS(s, m)
    ELSE VARIANT_W_CHAR * CHAR(s, m) + VARIANT_W_JACC * JACC(s, m)
         + VARIANT_W_COS * COS(s, m)

\* best and second are the two highest scores of the mode among the candidates
\* of row s (second is 0 with fewer than two candidates)
TwoHighest(s, mode, best, second) ==
    LET C == Range(Candidates(s))
    IN \E m \in C :
         /\ PairScore(s, m, mode) = best
         /\ \A o \in C : PairScore(s, o, mode) <= best
         /\ IF C = {m} THEN second = 0
            ELSE \E o \in C \ {m} :
                   /\ PairScore(s, o, mode) = second
                   /\ \A x \in C \ {m} : PairScore(s, x, mode) <= second

-----------------------------------------------------------------------------
(* C1: a processed row is accepted in a mode if and only if                *)
(* best >= threshold and best - second >= margin, where best and second    *)
(* are the two highest scores of the mode among the row's candidates;      *)
(* scores 0.91 and 0.87 under true_threshold 0.90 and true_margin 0.05 are *)
(* rejected in true mode.                                                  *)
C1_AcceptanceRule ==
    \A r \in AllResults :
      /\ TwoHighest(r.scraped_id, "true", r.best_true_score, r.second_true_score)
      /\ TwoHighest(r.scraped_id, "variant",
                    r.best_variant_score, r.second_variant_score)
      /\ r.true_accepted <=>
           (/\ r.best_true_score >= cfg.true_threshold
            /\ r.best_true_score - r.second_true_score >= cfg.true_margin)
      /\ r.variant_accepted <=>
           (/\ r.best_variant_score >= cfg.variant_threshold
            /\ r.best_variant_score - r.second_variant_score >= cfg.variant_margin)
      /\ (/\ r.best_true_score = 9100 /\ r.second_true_score = 8700
          /\ cfg.true_threshold = 9000 /\ cfg.true_margin = 500)
           => ~r.true_accepted

\* the example of C1: 0.91 and 0.87 at the default true threshold and margin
C1_Witness ==
    \E r \in AllResults :
      /\ r.best_true_score = 9100 /\ r.second_true_score = 8700
      /\ cfg.true_threshold = 9000 /\ cfg.true_margin = 500
      /\ ~r.true_accepted

-----------------------------------------------------------------------------
SingleCandidate(s) == Len(Candidates(s)) = 1

(* C2 as stated: a row with exactly one candidate whose score reaches the  *)
(* threshold is accepted whatever the margin in [0,1].                     *)
C2_AnyMargin ==
    \A r \in AllResults :
      SingleCandidate(r.scraped_id) =>
        /\ r.best_true_score >= cfg.true_threshold => r.true_accepted
        /\ r.best_variant_score >= cfg.variant_threshold => r.variant_accepted

(* C2, amended: a row with exactly one candidate has second = 0, and when  *)
(* its score reaches the threshold it is accepted exactly when             *)
(* margin <= best, so for every margin up to the threshold.                *)
C2_SingleCandidate ==
    \A r \in AllResults :
      SingleCandidate(r.scraped_id) =>
        /\ r.second_true_score = 0 /\ r.second_variant_score = 0
        /\ r.best_true_score >= cfg.true_threshold =>
             /\ r.true_accepted <=> cfg.true_margin <= r.best_true_score
             /\ \A mg \in ScoreGrid :
                  mg <= cfg.true_threshold =>
                    ResultUnder(r.scraped_id,
                                [cfg EXCEPT !.true_margin = mg]).true_accepted
        /\ r.best_variant_score >= cfg.variant_threshold =>
             /\ r.variant_accepted <=> cfg.variant_margin <= r.best_variant_score
             /\ \A mg \in ScoreGrid :
                  mg <= cfg.variant_threshold =>
                    ResultUnder(r.scraped_id,
                                [cfg EXCEPT !.variant_margin = mg]).variant_accepted

\* a single candidate at the threshold, accepted under a non-zero margin
C2_Witness ==
    \E r \in AllResults :
      /\ SingleCandidate(r.scraped_id)
      /\ r.best_true_score >= cfg.true_threshold
      /\ cfg.true_margin > 0
      /\ r.true_accepted

-----------------------------------------------------------------------------
DefaultsInForce ==
    /\ cfg.true_threshold = DEFAULT_TRUE_THRESHOLD
    /\ cfg.true_margin = DEFAULT_TRUE_MARGIN
    /\ cfg.variant_threshold = DEFAULT_VARIANT_THRESHOLD
    /\ cfg.variant_margin = DEFAULT_VARIANT_MARGIN

(* C3 as stated: under the fixed weights and the default thresholds and    *)
(* margins no row is accepted in true mode and rejected in variant mode.   *)
C3_TrueImpliesVariant ==
    \A r \in AllResults :
      (DefaultsInForce /\ r.true_accepted) => r.variant_accepted

(* C3, amended: under the fixed weights and the default thresholds and     *)
(* margins a row accepted in true mode has a best variant score of at      *)
(* least 0.80; it can still be rejected in variant mode.                   *)
C3_VariantFloor ==
    \A r \in AllResults :
      (DefaultsInForce /\ r.true_accepted) => r.best_variant_score >= 8000

\* accepted in true mode and rejected in variant mode, at the floor
C3_Witness ==
    \E r \in AllResults :
      /\ DefaultsInForce
      /\ r.true_accepted /\ ~r.variant_accepted
      /\ r.best_variant_score = 8000

-----------------------------------------------------------------------------
(* C4: the modes do not interfere.  A run that differs only in             *)
(* variant_threshold and variant_margin records the same true_accepted,    *)
(* best_true_score and second_true_score for every row, and a run that     *)
(* differs only in true_threshold and true_margin records the same         *)
(* variant_accepted and variant scores.                                    *)
C4_ModesIndependent ==
    \A r \in AllResults :
      \A t \in ThresholdGrid, mg \in MarginGrid :
        LET v == ResultUnder(r.scraped_id,
                             [cfg EXCEPT !.variant_threshold = t, !.variant_margin = mg])
            w == ResultUnder(r.scraped_id,
                             [cfg EXCEPT !.true_threshold = t, !.true_margin = mg])
        IN /\ v.true_accepted = r.true_accepted
           /\ v.best_true_score = r.best_true_score
           /\ v.second_true_score = r.second_true_score
           /\ w.variant_accepted = r.variant_accepted
           /\ w.best_variant_score = r.best_variant_score
           /\ w.second_variant_score = r.second_variant_score

\* a row whose variant acceptance changes with the variant threshold while
\* its true acceptance stays
C4_Witness ==
    \E r \in AllResults :
      /\ r.true_accepted /\ r.variant_accepted
      /\ \E t \in ThresholdGrid :
           ~ResultUnder(r.scraped_id,
                        [cfg EXCEPT !.variant_threshold = t]).variant_accepted

-----------------------------------------------------------------------------
(* C5: raising true_threshold, everything else fixed, never turns a row    *)
(* rejected in true mode into an accepted one: the rows accepted at the    *)
(* higher threshold are a subset of those accepted at the lower one.       *)
C5_ThresholdMonotone ==
    \A r \in AllResults :
      \A t \in ScoreGrid :
        LET a == ResultUnder(r.scraped_id,
                             [cfg EXCEPT !.true_threshold = t]).true_accepted
        IN /\ t > cfg.true_threshold => (a => r.true_accepted)
           /\ t < cfg.true_threshold => (r.true_accepted => a)

\* a row accepted at the configured threshold and rejected at a higher one
C5_Witness ==
    \E r \in AllResults :
      /\ r.true_accepted
      /\ \E t \in ScoreGrid :
           /\ t > cfg.true_threshold
           /\ ~ResultUnder(r.scraped_id,
                           [cfg EXCEPT !.true_threshold = t]).true_accepted

-----------------------------------------------------------------------------
\* the block workers that hold the retrieved candidates of their current row
Retrieved == {b \in DOMAIN worker : worker[b].stage # "idle"}

CurrentRow(b) == Head(worker[b].todo)

(* C6: the candidate set retrieved with top_k = K is a subset of the one   *)
(* retrieved with any K' > K on the same inputs, so the master accepted at *)
(* K is still a candidate of the row at K'.                                *)
C6_TopKSuperset ==
    /\ \A b \in Retrieved :
         \A k2 \in (cfg.top_k + 1)..(NumMasters + 1) :
           Range(worker[b].cands) \subseteq Range(CandidatesAt(CurrentRow(b), k2))
    /\ \A r \in AllResults :
         \A k2 \in (cfg.top_k + 1)..(NumMasters + 1) :
           /\ r.best_master_id \in Range(CandidatesAt(r.scraped_id, k2))
           /\ r.best_variant_master_id \in Range(CandidatesAt(r.scraped_id, k2))

\* a row accepted at top_k = 1 for which a larger top_k retrieves more masters
C6_Witness ==
    \E r \in AllResults :
      /\ r.true_accepted
      /\ Len(Candidates(r.scraped_id)) = 1
      /\ \E k2 \in (cfg.top_k + 1)..(NumMasters + 1) :
           Len(CandidatesAt(r.scraped_id, k2)) > 1

-----------------------------------------------------------------------------
(* C10: retrieval returns min(top_k, number of masters of the block)       *)
(* masters of the block, ordered by cosine similarity descending with      *)
(* equal similarities by ascending master id, and no master of the block   *)
(* outside the list has a strictly higher cosine similarity than one in it.*)
C10_RetrievalOrder ==
    \A b \in Retrieved :
      LET s == CurrentRow(b)
          c == worker[b].cands
          pool == {m \in 1..Len(masters) : brand_clean(masters[m]) = b}
      IN /\ Len(c) = Min(cfg.top_k, Cardinality(pool))
         /\ Range(c) \subseteq {masters[m].id : m \in pool}
         /\ \A i \in 1..Len(c), j \in 1..Len(c) :
              i < j =>
                \/ metric[s][c[i]].cos > metric[s][c[j]].cos
                \/ /\ metric[s][c[i]].cos = metric[s][c[j]].cos
                   /\ c[i] < c[j]
         /\ \A o \in pool :
              masters[o].id \notin Range(c) =>
                \A i \in 1..Len(c) : metric[s][masters[o].id].cos <= metric[s][c[i]].cos

\* two candidates of equal cosine similarity, and one master left out
C10_Witness ==
    \E b \in Retrieved :
      LET s == CurrentRow(b)
          c == worker[b].cands
      IN \/ /\ Len(c) = 2
            /\ metric[s][c[1]].cos = metric[s][c[2]].cos
         \/ /\ Len(c) = 1
            /\ Cardinality(MasterSubset(blocks, b)) > 1
            /\ \E o \in MasterSubset(blocks, b) :
                 o # c[1] /\ metric[s][o].cos = metric[s][c[1]].cos

-----------------------------------------------------------------------------
\* the scraped rows counted per normalized brand, from the input rows
BrandsOfScraped == {brand_clean(scraped[i]) : i \in DOMAIN scraped}

RowCount(b) == Cardinality({i \in DOMAIN scraped : brand_clean(scraped[i]) = b})

Processed == Range(selected)

(* C7: with top_brands = N the processed brands are exactly the N brands   *)
(* with the most scraped rows (all of them when there are fewer than N),   *)
(* equal frequencies ordered by brand string ascending; no scraped row of  *)
(* another brand appears in MatchResult and no other brand appears in      *)
(* BrandSummary.                                                           *)
C7_TopBrands ==
    pc \in {"processing", "done"} =>
      /\ Len(selected) = Min(cfg.top_brands, Cardinality(BrandsOfScraped))
      /\ Cardinality(Processed) = Len(selected)
      /\ Processed \subseteq BrandsOfScraped
      /\ \A x \in Processed, y \in BrandsOfScraped \ Processed :
           \/ RowCount(x) > RowCount(y)
           \/ RowCount(x) = RowCount(y) /\ BrandLess(x, y)
      /\ \A i \in 1..Len(selected), j \in 1..Len(selected) :
           i < j =>
             \/ RowCount(selected[i]) > RowCount(selected[j])
             \/ /\ RowCount(selected[i]) = RowCount(selected[j])
                /\ BrandLess(selected[i], selected[j])
      /\ \A r \in AllResults : RowBrand(r.scraped_id) \in Processed
      /\ DOMAIN summary \subseteq Processed
      /\ \A b \in DOMAIN summary : summary[b].brand = b
      /\ pc = "done" => DOMAIN summary = Processed

\* a finished run that dropped a brand with as many rows as a processed one,
\* and that has a MatchResult and a BrandSummary
C7_Witness ==
    /\ pc = "done"
    /\ results # <<>>
    /\ DOMAIN summary # {}
    /\ \E x \in Processed, y \in BrandsOfScraped \ Processed :
         RowCount(x) = RowCount(y)

\* a finished run that dropped a brand with fewer rows than a processed brand
\* that comes after it in the ascending order of brand strings
C7_FrequencyCase ==
    /\ pc = "done"
    /\ \E x \in Processed, y \in BrandsOfScraped \ Processed :
         RowCount(x) > RowCount(y) /\ BrandLess(y, x)

-----------------------------------------------------------------------------
\* b has no leading, trailing or doubled space and no upper-case letter
IsNormalized(b) ==
    /\ \A i \in 1..Len(b) : \E j \in 1..Len(Chars) : Chars[j] = b[i]
    /\ b # <<>> => (b[1] # " " /\ b[Len(b)] # " ")
    /\ \A i \in 1..(Len(b) - 1) : ~(b[i] = " " /\ b[i + 1] = " ")

NotSpace(c) == c # " "

\* raw and key have the same letters, case apart
SameLetters(raw, key) ==
    LET l == SelectSeq(raw, NotSpace)
    IN [i \in 1..Len(l) |-> Fold(l[i])] = SelectSeq(key, NotSpace)

BlocksOfMaster(id) == {b \in DOMAIN blocks : id \in blocks[b].master_subset}

BlocksOfScraped(id) == {b \in DOMAIN blocks : id \in blocks[b].scraped_subset}

(* C8: blocking is a partition.  Every master and scraped record is in     *)
(* exactly one brand block, keyed by its normalized brand; every candidate *)
(* and every best master of a MatchResult is a master of the block of the  *)
(* scraped row; a scraped row whose brand has no master gets no candidate. *)
C8_BlockPartition ==
    pc \in {"processing", "done"} =>
      /\ \A i \in DOMAIN masters :
           /\ BlocksOfMaster(masters[i].id) = {brand_clean(masters[i])}
           /\ \A b \in BlocksOfMaster(masters[i].id) :
                IsNormalized(b) /\ SameLetters(masters[i].brand_raw, b)
      /\ \A i \in DOMAIN scraped :
           /\ BlocksOfScraped(scraped[i].id) = {brand_clean(scraped[i])}
           /\ \A b \in BlocksOfScraped(scraped[i].id) :
                IsNormalized(b) /\ SameLetters(scraped[i].brand_raw, b)
      /\ \A b \in Retrieved :
           /\ worker[b].cands # <<>>
           /\ BlocksOfScraped(CurrentRow(b)) = {b}
           /\ \A m \in Range(worker[b].cands) : BlocksOfMaster(m) = {b}
      /\ \A r \in AllResults :
           /\ BlocksOfMaster(r.best_master_id) = BlocksOfScraped(r.scraped_id)
           /\ BlocksOfMaster(r.best_variant_master_id) = BlocksOfScraped(r.scraped_id)
      /\ \A b \in DOMAIN worker :
           blocks[b].master_subset = {} =>
             /\ worker[b].stage = "idle" /\ worker[b].cands = <<>>
             /\ worker[b].out = <<>>

\* a finished run with a processed brand that has no master, a MatchResult of
\* another brand, and a block that joins rows of different raw brand strings
C8_Witness ==
    /\ pc = "done"
    /\ results # <<>>
    /\ \E b \in Processed : blocks[b].master_subset = {}
    /\ \E i \in DOMAIN masters, j \in DOMAIN scraped :
         /\ masters[i].brand_raw # scraped[j].brand_raw
         /\ BlocksOfMaster(masters[i].id) = BlocksOfScraped(scraped[j].id)
         /\ \E r \in Range(results) : r.scraped_id = scraped[j].id

-----------------------------------------------------------------------------
ResultsOf(rs, s) == {i \in DOMAIN rs : rs[i].scraped_id = s}

HasMasters(b) == \E i \in DOMAIN masters : brand_clean(masters[i]) = b

(* C9: at most one MatchResult per scraped row, exactly one for each       *)
(* processed row that has candidates, and none for a scraped row whose     *)
(* block has an empty master subset.                                       *)
C9_OneResultPerRow ==
    /\ \A i \in DOMAIN scraped :
         /\ Cardinality(ResultsOf(results, scraped[i].id)) <= 1
         /\ \A b \in DOMAIN worker :
              /\ Cardinality(ResultsOf(worker[b].out, scraped[i].id)) <= 1
              /\ ResultsOf(worker[b].out, scraped[i].id) # {} =>
                   b = brand_clean(scraped[i])
    /\ pc = "done" =>
         \A i \in DOMAIN scraped :
           Cardinality(ResultsOf(results, scraped[i].id)) =
             IF brand_clean(scraped[i]) \in Processed /\ HasMasters(brand_clean(scraped[i]))
             THEN 1 ELSE 0

\* a finished run with a MatchResult and with a processed row without masters
C9_Witness ==
    /\ pc = "done"
    /\ results # <<>>
    /\ \E i \in DOMAIN scraped :
         /\ brand_clean(scraped[i]) \in Processed
         /\ ~HasMasters(brand_clean(scraped[i]))
         /\ ResultsOf(results, scraped[i].id) = {}

-----------------------------------------------------------------------------
\* the permutations of 1..n
Perms(n) == {p \in [1..n -> 1..n] : \A i \in 1..n, j \in 1..n : p[i] = p[j] => i = j}

Permuted(seq, p) == [i \in 1..Len(seq) |-> seq[p[i]]]

RECURSIVE BlockResults(_, _, _, _)
\* the MatchResults of the scraped rows todo of block b, in that order
BlockResults(idx, b, todo, c) ==
    IF todo = <<>> THEN <<>>
    ELSE LET s == Head(todo)
             cands == Retrieve(s, MasterSubset(idx, b), c.top_k)
         IN (IF cands = <<>> THEN <<>> ELSE <<MatchRow(s, ScoreAll(s, cands), c)>>)
            \o BlockResults(idx, b, Tail(todo), c)

RECURSIVE RunResults(_, _, _)
RunResults(idx, order, c) ==
    IF order = <<>> THEN <<>>
    ELSE BlockResults(idx, Head(order), SeqOfSet(idx[Head(order)].scraped_subset), c)
         \o RunResults(idx, Tail(order), c)

\* the MatchResult list of a whole run on master rows ms and scraped rows ss
PipelineResults(ms, ss, c) ==
    LET idx == BlockingIndex(ms, ss)
    IN RunResults(idx, SelectBrands(idx, c), c)

\* m has the highest score of the mode among the candidates of row s, and the
\* lowest id among the candidates of that score
FirstOfMode(s, m, mode) ==
    LET C == Range(Candidates(s))
    IN /\ m \in C
       /\ \A o \in C :
            \/ PairScore(s, o, mode) < PairScore(s, m, mode)
            \/ PairScore(s, o, mode) = PairScore(s, m, mode) /\ m <= o

(* C11: within a row and mode the candidates are ranked by ensemble score  *)
(* descending, ties by ascending master id, so the recorded best master    *)
(* id, best and second scores and acceptance booleans are the same for     *)
(* every order in which master rows, scraped rows or candidates are        *)
(* supplied. The rows reach the run through the blocking index only: it is *)
(* the same for every permutation of the rows, and the MatchResult list is *)
(* the one computed from it.                                               *)
C11_OrderIndependent ==
    /\ \A r \in AllResults :
         LET s == r.scraped_id
             sc == ScoreAll(s, Candidates(s))
         IN /\ FirstOfMode(s, r.best_master_id, "true")
            /\ FirstOfMode(s, r.best_variant_master_id, "variant")
            /\ \A p \in Perms(Len(sc)) : MatchRow(s, Permuted(sc, p), cfg) = r
    /\ pc = "done" =>
         /\ \A pm \in Perms(Len(masters)), ps \in Perms(Len(scraped)) :
              BlockingIndex(Permuted(masters, pm), Permuted(scraped, ps)) = blocks
         /\ RunResults(blocks, SelectBrands(blocks, cfg), cfg) = results

\* a MatchResult of a row with two candidates of the same true score, in a
\* finished run with more than one MatchResult
C11_Witness ==
    /\ pc = "done"
    /\ Len(results) > 1
    /\ \E r \in Range(results) :
         /\ Len(Candidates(r.scraped_id)) > 1
         /\ r.best_true_score = r.second_true_score

-----------------------------------------------------------------------------
\* the BrandSummary map of a whole run on master rows ms and scraped rows ss
PipelineSummary(ms, ss, c) ==
    LET rs == PipelineResults(ms, ss, c)
    IN [b \in Range(SelectBrands(BlockingIndex(ms, ss), c)) |-> BrandSummary(rs, b)]

\* the shared result collection is written in this step
WritesShared == results' # results \/ summary' # summary

(* C12: with one worker per brand block running concurrently, the          *)
(* MatchResult list and the BrandSummary map are written only by a single  *)
(* aggregation step that starts after every block worker has finished, and *)
(* their final content is a function of the input alone, the same for      *)
(* every interleaving and completion order of the workers.                 *)
C12_SingleAggregation ==
    /\ [](pc = "done" =>
            /\ results = PipelineResults(masters, scraped, cfg)
            /\ summary = PipelineSummary(masters, scraped, cfg))
    /\ [](pc # "done" => results = <<>> /\ summary = <<>>)
    /\ [][WritesShared =>
            /\ pc = "processing"
            /\ \A b \in DOMAIN worker : WorkerDone(b)
            /\ pc' = "done"]_vars
    /\ [][pc = "done" => pc' = "done" /\ ~WritesShared]_vars

\* a finished run in which two block workers each produced a MatchResult
C12_Witness ==
    /\ pc = "done"
    /\ Cardinality({b \in DOMAIN worker : worker[b].out # <<>>}) > 1
    /\ Len(results) > 1

\* two block workers are in the middle of a row at the same time
C12_Concurrent ==
    /\ pc = "processing"
    /\ Cardinality({b \in DOMAIN worker : worker[b].stage # "idle"}) > 1

-----------------------------------------------------------------------------
\* the scraped rows of brand b that were processed into a MatchResult
ProcessedRows(b) ==
    {s \in DOMAIN scraped : RowBrand(s) = b /\ ResultsOf(results, s) # {}}

TrueAcceptedRows(b) ==
    {s \in ProcessedRows(b) : \E i \in ResultsOf(results, s) : results[i].true_accepted}

VariantAcceptedRows(b) ==
    {s \in ProcessedRows(b) : \E i \in ResultsOf(results, s) : results[i].variant_accepted}

\* rate is the fraction num/den, or the undefined value when den is 0
IsRate(rate, num, den) ==
    IF den = 0 THEN rate.nan
    ELSE ~rate.nan /\ rate.num = num /\ rate.den = den

(* C14: for every brand in BrandSummary, scraped_count is the number of    *)
(* the brand's scraped rows that were processed, true_accept_rate is the   *)
(* number of those rows with true_accepted over scraped_count, likewise    *)
(* for variant; when scraped_count is 0 the rates are the explicit         *)
(* undefined value and never 0.                                            *)
C14_BrandSummary ==
    \A b \in DOMAIN summary :
      LET n == Cardinality(ProcessedRows(b))
      IN /\ summary[b].brand = b
         /\ summary[b].scraped_count = n
         /\ IsRate(summary[b].true_accept_rate, Cardinality(TrueAcceptedRows(b)), n)
         /\ IsRate(summary[b].variant_accept_rate, Cardinality(VariantAcceptedRows(b)), n)

\* a finished run with a brand of no processed row, whose rates are undefined,
\* and a brand of which some but not all processed rows are true-accepted
C14_Witness ==
    /\ pc = "done"
    /\ \E b \in DOMAIN summary :
         summary[b].scraped_count = 0 /\ summary[b].true_accept_rate.nan
    /\ \E b \in DOMAIN summary :
         /\ summary[b].scraped_count > 1
         /\ summary[b].true_accept_rate.num > 0
         /\ summary[b].true_accept_rate.num < summary[b].true_accept_rate.den

-----------------------------------------------------------------------------
\* nothing of a run exists: no block, no worker, no MatchResult, no BrandSummary
NothingProcessed ==
    /\ blocks = <<>> /\ selected = <<>> /\ worker = <<>>
    /\ results = <<>> /\ summary = <<>>

\* a threshold or margin is outside [0,1], or top_k or top_brands is not positive
OutOfRange ==
    \/ \E f \in {"true_threshold", "true_margin", "variant_threshold", "variant_margin"} :
         cfg[f] < 0 \/ cfg[f] > ScoreOne
    \/ cfg.top_k <= 0
    \/ cfg.top_brands <= 0

\* the per-record problems of the input
MalformedRecords ==
    {i \in DOMAIN masters : Malformed(masters[i])}
    \cup {i \in DOMAIN scraped : Malformed(scraped[i])}

FailedRows ==
    {s \in DOMAIN scraped : \E m \in DOMAIN masters : "cos" \notin DOMAIN metric[s][m]}

NoMasterRows ==
    {i \in DOMAIN scraped :
       /\ ~Malformed(scraped[i])
       /\ \A m \in DOMAIN masters :
            Malformed(masters[m]) \/ brand_clean(masters[m]) # brand_clean(scraped[i])}

\* the run can take a step; BuildBlockingIndex has no guard but its phase
Runnable ==
    \/ ENABLED ValidateConfig
    \/ pc = "start"
    \/ ENABLED (\E b \in DOMAIN worker : RetrieveCandidates(b))
    \/ ENABLED (\E b \in DOMAIN worker : ScoreCandidates(b))
    \/ ENABLED (\E b \in DOMAIN worker : DecideRow(b))
    \/ ENABLED Aggregate

(* C13: if a threshold or margin is outside [0,1], or top_k or top_brands  *)
(* is not positive, the run ends in a ConfigurationError before any brand  *)
(* block is processed and produces no MatchResult and no BrandSummary;     *)
(* otherwise the run never ends in the error and, with empty blocks,       *)
(* malformed records or retrieval failures in the input, can take its next *)
(* step in every state until it is done.                                   *)
C13_ConfigurationError ==
    /\ OutOfRange =>
         /\ pc \in {"config", "config_error"}
         /\ NothingProcessed
         /\ pc = "config" => ENABLED ValidateConfig
    /\ pc = "config_error" => OutOfRange /\ ~Runnable
    /\ ~OutOfRange =>
         /\ pc # "config_error"
         /\ pc # "done" => Runnable
         /\ pc = "done" => DOMAIN summary = Range(selected)

\* a run ended in the ConfigurationError for a margin above 1
C13_Witness ==
    /\ pc = "config_error"
    /\ cfg.variant_margin > ScoreOne
    /\ cfg.top_k > 0

\* a finished run over an input with a malformed record, a retrieval failure
\* and a brand without master rows, that still produced a MatchResult
C13_Degraded ==
    /\ pc = "done"
    /\ MalformedRecords # {} /\ FailedRows # {} /\ NoMasterRows # {}
    /\ results # <<>>

-----------------------------------------------------------------------------
(* C15: JACC over case-folded whitespace token sets is symmetric, is 1 for *)
(* two texts of the same non-empty token set (so for JACC(A,A)), is 0 when *)
(* both token sets are empty, and always lies in [0,1].                    *)
C15_Jaccard ==
    jcall.done =>
      /\ jcall.out = Jacc(jcall.b, jcall.a)
      /\ jcall.out \in 0..100
      /\ (TokenSet(jcall.a) = TokenSet(jcall.b) /\ TokenSet(jcall.a) # {})
           => jcall.out = 100
      /\ (TokenSet(jcall.a) = {} /\ TokenSet(jcall.b) = {}) => jcall.out = 0

\* JACC was computed for two texts that differ in case and spacing only, as 1,
\* the first text having two tokens
C15_Witness ==
    /\ jcall.done
    /\ jcall.a # jcall.b
    /\ Cardinality(TokenSet(jcall.a)) = 2
    /\ jcall.out = 100

\* JACC was computed for two texts that share one of two tokens
C15_Partial ==
    /\ jcall.done
    /\ jcall.out = 50

\* JACC was computed for two texts without tokens, one of them of spaces
C15_Empty ==
    /\ jcall.done
    /\ jcall.a = <<>> /\ jcall.b # <<>>
    /\ TokenSet(jcall.b) = {}
    /\ jcall.out = 0

-----------------------------------------------------------------------------
(* Product controller: JavaScript values *)

\* a JavaScript value: its type and its text (a number by its decimal text)
Undefined == [t |-> "undefined", v |-> ""]
Null == [t |-> "null", v |-> ""]
Str(x) == [t |-> "string", v |-> x]
Num(x) == [t |-> "number", v |-> x]
NaNValue == [t |-> "number", v |-> "NaN"]
Infinity == [t |-> "number", v |-> "Infinity"]

\* !x
Falsy(x) ==
    \/ x.t \in {"undefined", "null"}
    \/ x = Str("")
    \/ x = Num("0")
    \/ x = NaNValue

\* a ?? b
Coalesce(a, b) == IF a.t \in {"undefined", "null"} THEN b ELSE a

\* the strings of the model that match /^[0-9a-fA-F]{24}$/
OidLower == "aaaaaaaaaaaaaaaaaaaaaaaa"
OidUpper == "AAAAAAAAAAAAAAAAAAAAAAAA"
OidDigits == "000000000000000000000007"

IsHex24(x) == x.t = "string" /\ x.v \in {OidLower, OidUpper, OidDigits}

\* new ObjectId(hex): the ObjectId, by its lower-case hex string
ObjectIdOf(text) == IF text = OidUpper THEN OidLower ELSE text

\* Number(x) of a string or number
ToNumber(x) ==
    IF x.t = "number" THEN x
    ELSE IF x.v \in {"7", OidDigits} THEN Num("7")
    ELSE IF x.v \in {"0", ""} THEN Num("0")
    ELSE NaNValue

-----------------------------------------------------------------------------
(* Product controller: requests, responses, the cached client and handles *)

\* a query parameter: absent, a text parseInt has no number for, or an integer
QAbsent == [k |-> "absent", n |-> 0]
QText == [k |-> "text", n |-> 0]
QInt(n) == [k |-> "int", n |-> n]

DefaultQuery ==
    [page |-> QAbsent, limit |-> QAbsent, pageSize |-> QAbsent,
     search |-> "", category |-> ""]

DefaultBody == [productId |-> Str("P001"), product_id |-> Undefined]

NotPaged == [paged |-> FALSE, skip |-> 0, limit |-> 0]

\* a request about to run its handler, fault being the database call that
\* throws; mine is the client the request has constructed, calls the database
\* calls it has made, applied the $skip and $limit of its aggregation
NewRequest(kind, query, body, fault) ==
    [kind |-> kind, pc |-> "coles", mine |-> 0, fault |-> fault,
     query |-> query, body |-> body, calls |-> <<>>, applied |-> NotPaged]

Send(r, status, body) ==
    resp' = [resp EXCEPT ![r] = Append(@, [status |-> status, body |-> body])]

\* the catch block of the handler
Fail(r) ==
    /\ Send(r, 500,
            IF req[r].kind = "getProducts"
            THEN [message |-> "Failed to fetch products"]
            ELSE [message |-> "Internal Server Error"])
    /\ req' = [req EXCEPT ![r].pc = "done"]

\* where a request goes on after it has the collection it waits for
After(at) == IF at \in {"coles", "coles_connect"} THEN "pricings" ELSE "body"

Cached(at) ==
    IF at \in {"coles", "coles_connect"} THEN colesCollection
    ELSE productPricingsCollection

\* colesCollection or productPricingsCollection = client.db(..).collection(..)
SetHandle(at) ==
    IF at \in {"coles", "coles_connect"}
    THEN colesCollection' = client' /\ UNCHANGED productPricingsCollection
    ELSE productPricingsCollection' = client' /\ UNCHANGED colesCollection

\* !client || !client.topology || client.topology.isConnected() === false
NeedsClient == client = 0 \/ client \notin connected

\* getColesCollection / getProductPricingsCollection up to its return, its
\* throw or its await of client.connect()
EnterCollection(r) ==
    /\ req[r].pc \in {"coles", "pricings"}
    /\ LET at == req[r].pc
       IN IF Cached(at) # 0
          THEN /\ req' = [req EXCEPT ![r].pc = After(at)]
               /\ UNCHANGED <<cacheVars, resp>>
          ELSE IF ~uri
          THEN Fail(r) /\ UNCHANGED cacheVars
          ELSE IF NeedsClient
          THEN /\ clientsMade' = clientsMade + 1
               /\ client' = clientsMade + 1
               /\ req' = [req EXCEPT ![r].mine = clientsMade + 1,
                                     ![r].pc = IF at = "coles" THEN "coles_connect"
                                               ELSE "pricings_connect"]
               /\ UNCHANGED <<connected, colesCollection, productPricingsCollection, resp>>
          ELSE /\ UNCHANGED <<client, connected, clientsMade, resp>>
               /\ SetHandle(at)
               /\ req' = [req EXCEPT ![r].pc = After(at)]
    /\ UNCHANGED <<masters, scraped, metric, cfg, pc, blocks, selected, worker,
                   results, summary, jaccVars, heroVars, dbVars>>

\* await client.connect() resolves and the function goes on with the module's
\* client as it is now
ConnectResolved(r) ==
    /\ req[r].pc \in {"coles_connect", "pricings_connect"}
    /\ connected' = connected \cup {req[r].mine}
    /\ UNCHANGED <<client, clientsMade>>
    /\ SetHandle(req[r].pc)
    /\ req' = [req EXCEPT ![r].pc = After(req[r].pc)]
    /\ UNCHANGED <<masters, scraped, metric, cfg, pc, blocks, selected, worker,
                   results, summary, jaccVars, heroVars, dbVars, resp>>

-----------------------------------------------------------------------------
(* Product controller: documents, normaliseColesProduct, latest pricing *)

\* the ObjectIds of the model, in ascending order
OidB == "bbbbbbbbbbbbbbbbbbbbbbbb"
OidC == "cccccccccccccccccccccccc"
Oids == <<OidDigits, OidLower, OidB, OidC>>

OidRank(id) == CHOOSE i \in DOMAIN Oids : Oids[i] = id

\* a document of products; a field the document does not have is Undefined
ProductDoc(id, pid, code, name, category) ==
    [_id |-> id, product_id |-> pid, productId |-> Undefined, product_code |-> code,
     product_name |-> name, name |-> Undefined, item_name |-> Undefined,
     description |-> Undefined, link_image |-> Undefined, image |-> Undefined,
     link |-> Undefined, category |-> category]

\* a document of product_pricings; a date is 0 when the document has none,
\* which is where a sort puts a missing field
PricingDoc(pid, collected, created, price) ==
    [product_id |-> pid, collected_at |-> collected, created_datetime |-> created,
     current_price |-> price]

\* no pricing document: null
NoPricing == PricingDoc("", 0, 0, Undefined)

normaliseColesProduct(product, latestPricing) ==
    LET currentPrice ==
          IF /\ latestPricing # NoPricing
             /\ latestPricing.current_price.t = "number"
             /\ latestPricing.current_price # NaNValue
          THEN latestPricing.current_price
          ELSE Num("0")
    IN [_id |-> product._id,
        product_id |-> Coalesce(product.product_id,
                         Coalesce(product.productId, Coalesce(product.product_code, Null))),
        product_name |-> Coalesce(product.product_name,
                           Coalesce(product.name,
                             Coalesce(product.item_name, Str("Unnamed Product")))),
        description |-> Coalesce(product.description, Null),
        link_image |-> Coalesce(product.link_image,
                         Coalesce(product.image, Coalesce(product.link, Null))),
        current_price |-> currentPrice,
        category |-> Coalesce(product.category, Null),
        link |-> Coalesce(product.link, Null)]

\* res.json(body): JSON has no NaN and no Infinity, JSON.stringify writes null
JsonValue(x) == IF x \in {NaNValue, Infinity} THEN Null ELSE x

\* a normalised product as res.json sends it
JsonProduct(p) == [p EXCEPT !.current_price = JsonValue(@)]

\* the pricing documents of the product
PricingsOf(id) == {i \in DOMAIN pricings : pricings[i].product_id = id}

\* p comes before q in the sort {collected_at: -1, created_datetime: -1}
SortsBefore(p, q) ==
    \/ p.collected_at > q.collected_at
    \/ p.collected_at = q.collected_at /\ p.created_datetime > q.created_datetime

\* the documents that can come first in that sort: the sort does not order
\* documents of equal keys
FirstPricings(id) ==
    {i \in PricingsOf(id) : \A j \in PricingsOf(id) : ~SortsBefore(pricings[j], pricings[i])}

\* a choice of the first pricing of each product, 0 for a product without one
LatestChoices ==
    {f \in [DOMAIN products -> 0..Len(pricings)] :
       \A i \in DOMAIN products :
         IF PricingsOf(products[i]._id) = {} THEN f[i] = 0
         ELSE f[i] \in FirstPricings(products[i]._id)}

PricingAt(i) == IF i = 0 THEN NoPricing ELSE pricings[i]

-----------------------------------------------------------------------------
(* Product controller: getProducts *)

\* the strings of the model under trim() and under a case-insensitive match
Trim(text) ==
    CASE text = " Dairy " -> "Dairy"
      [] text = " APP " -> "APP"
      [] text = "   " -> ""
      [] OTHER -> text

Lower(text) ==
    CASE text = "Dairy" -> "dairy"
      [] text = "APP" -> "app"
      [] text = "Apple" -> "apple"
      [] OTHER -> text

\* new RegExp(needle, 'i') matches the value
RegexFinds(value, needle) ==
    /\ value.t = "string"
    /\ <<Lower(value.v), Lower(needle)>> \in
         {<<"apple", "app">>, <<"apple", "apple">>, <<"app", "app">>,
          <<"banana", "banana">>}

\* the product matches the query built from search and category
Matches(doc, q) ==
    /\ Trim(q.search) # "" =>
         \/ RegexFinds(doc.product_name, Trim(q.search))
         \/ RegexFinds(doc.name, Trim(q.search))
         \/ RegexFinds(doc.item_name, Trim(q.search))
    /\ Trim(q.category) # "" =>
         /\ doc.category.t = "string"
         /\ Lower(doc.category.v) = Lower(Trim(q.category))

Matching(q) == {i \in DOMAIN products : Matches(products[i], q)}

\* $toLower of the first name field the product has, '' without one
sortName(doc) ==
    Lower(Coalesce(doc.product_name,
            Coalesce(doc.name, Coalesce(doc.item_name, Str("")))).v)

\* the order of the lower-case names of the model
NameRank(text) ==
    CASE text = "" -> 0 [] text = "apple" -> 1 [] text = "banana" -> 2 [] OTHER -> 3

\* $sort {sortName: 1, _id: 1}
ListedBefore(a, b) ==
    \/ NameRank(sortName(a)) < NameRank(sortName(b))
    \/ /\ NameRank(sortName(a)) = NameRank(sortName(b))
       /\ OidRank(a._id) < OidRank(b._id)

RECURSIVE SortProducts(_)
SortProducts(S) ==
    IF S = {} THEN <<>>
    ELSE LET i == CHOOSE x \in S :
                    \A y \in S \ {x} : ListedBefore(products[x], products[y])
         IN <<i>> \o SortProducts(S \ {i})

\* $skip and $limit
Slice(seq, skip, limit) ==
    IF skip >= Len(seq) THEN <<>>
    ELSE SubSeq(seq, skip + 1, Min(skip + limit, Len(seq)))

Max(a, b) == IF a >= b THEN a ELSE b

\* Boolean(param) of a query string parameter
Truthy(q) == q.k # "absent"

\* parseInt(param, 10) || d
ParseIntOr(q, d) == IF q.k = "int" /\ q.n # 0 THEN q.n ELSE d

\* Math.ceil(t / n) for t >= 0 and n # 0
CeilDiv(t, n) ==
    IF n > 0 THEN (t + n - 1) \div n
    ELSE 0 - (t \div (0 - n))

DEFAULT_PAGE_SIZE == 30
MAX_PAGE_SIZE == 100

\* the request is answered; calls and applied are what it did to the database
Finish(r, status, body, calls, applied) ==
    /\ Send(r, status, body)
    /\ req' = [req EXCEPT ![r].pc = "done", ![r].calls = calls, ![r].applied = applied]

\* parseInt(limit, 10) || parseInt(pageSize, 10) || 30 of the 404 response
pageSizeOf404(q) ==
    ParseIntOr(q.limit, ParseIntOr(q.pageSize, DEFAULT_PAGE_SIZE))

\* getProducts after it has both collections, up to its response
GetProducts(r) ==
    /\ req[r].pc = "body"
    /\ req[r].kind = "getProducts"
    /\ LET q == req[r].query
           hasPagingParams == Truthy(q.page) \/ Truthy(q.limit) \/ Truthy(q.pageSize)
           total == Cardinality(Matching(q))
           pageNumber == Max(ParseIntOr(q.page, 1), 1)
           rawPageSize == ParseIntOr(q.limit, ParseIntOr(q.pageSize, DEFAULT_PAGE_SIZE))
           pageSizeNumber == Min(Max(rawPageSize, 1), MAX_PAGE_SIZE)
           applied == IF hasPagingParams
                      THEN [paged |-> TRUE, skip |-> (pageNumber - 1) * pageSizeNumber,
                            limit |-> pageSizeNumber]
                      ELSE NotPaged
           sorted == SortProducts(Matching(q))
           docs == IF hasPagingParams
                   THEN Slice(sorted, applied.skip, applied.limit)
                   ELSE sorted
           failed == [message |-> "Failed to fetch products"]
       IN IF req[r].fault = "countDocuments"
          THEN Finish(r, 500, failed, <<"countDocuments">>, NotPaged)
          ELSE IF req[r].fault = "aggregate"
          THEN Finish(r, 500, failed, <<"countDocuments", "aggregate">>, applied)
          ELSE IF docs = <<>>
          THEN Finish(r, 404,
                      [message |-> "No products found",
                       items |-> <<>>,
                       page |-> IF hasPagingParams THEN pageNumber ELSE 1,
                       pageSize |-> IF hasPagingParams THEN pageSizeOf404(q) ELSE total,
                       total |-> 0,
                       totalPages |-> IF hasPagingParams
                                      THEN Max(1, CeilDiv(total, pageSizeOf404(q)))
                                      ELSE 0],
                      <<"countDocuments", "aggregate">>, applied)
          ELSE \E latest \in LatestChoices :
                 LET normalised ==
                       [i \in 1..Len(docs) |->
                          JsonProduct(
                            normaliseColesProduct(products[docs[i]],
                                                  PricingAt(latest[docs[i]])))]
                 IN IF ~hasPagingParams
                    THEN Finish(r, 200,
                                [items |-> normalised, page |-> 1,
                                 pageSize |-> Len(normalised),
                                 total |-> Len(normalised), totalPages |-> 1],
                                <<"countDocuments", "aggregate">>, applied)
                    ELSE Finish(r, 200,
                                [items |-> normalised, page |-> pageNumber,
                                 pageSize |-> pageSizeNumber, total |-> total,
                                 totalPages |-> Max(1, CeilDiv(total, pageSizeNumber))],
                                <<"countDocuments", "aggregate">>, applied)
    /\ UNCHANGED <<masters, scraped, metric, cfg, pc, blocks, selected, worker,
                   results, summary, jaccVars, heroVars, dbVars, cacheVars>>

-----------------------------------------------------------------------------
(* Product controller: getProduct *)

\* coles.findOne({field: value}): the first document in natural order, 0 if none
FindOne(field, value) ==
    LET hits == {i \in DOMAIN products : products[i][field] = value}
    IN IF hits = {} THEN 0 ELSE CHOOSE i \in hits : \A j \in hits : i <= j

\* coles.findOne({_id: id})
FindById(id) ==
    LET hits == {i \in DOMAIN products : products[i]._id = id}
    IN IF hits = {} THEN 0 ELSE CHOOSE i \in hits : \A j \in hits : i <= j

\* a step of the lookup: the product found so far (0: none), the calls made and
\* whether a call has thrown out of the handler's try block
LookupStart == [product |-> 0, calls |-> <<>>, threw |-> FALSE]

\* 1. the identifier as a MongoDB _id if it is a 24-hex string; what the call
\* throws is caught and ignored
LookupId(st, identifier, fault) ==
    IF IsHex24(identifier)
    THEN [st EXCEPT !.calls = Append(@, "_id"),
                    !.product = IF fault = "_id" THEN 0
                                ELSE FindById(ObjectIdOf(identifier.v))]
    ELSE st

\* a later step: skipped when a product is found or a call has thrown
LookupBy(st, applies, call, field, value, fault) ==
    IF st.threw \/ st.product # 0 \/ ~applies THEN st
    ELSE IF fault = call THEN [st EXCEPT !.calls = Append(@, call), !.threw = TRUE]
    ELSE [st EXCEPT !.calls = Append(@, call), !.product = FindOne(field, value)]

\* steps 1 to 4 of getProduct
Lookup(identifier, fault) ==
    LET s1 == LookupId(LookupStart, identifier, fault)
        s2 == LookupBy(s1, TRUE, "product_id", "product_id", identifier, fault)
        s3 == LookupBy(s2, TRUE, "product_code", "product_code", identifier, fault)
    IN LookupBy(s3,
                identifier.t \in {"string", "number"} /\ ToNumber(identifier) # NaNValue,
                "product_code#", "product_code", ToNumber(identifier), fault)

\* req.body.productId ?? req.body.product_id
IdentifierOf(body) == Coalesce(body.productId, body.product_id)

\* getProduct after it has both collections, up to its response
GetProduct(r) ==
    /\ req[r].pc = "body"
    /\ req[r].kind = "getProduct"
    /\ LET identifier == IdentifierOf(req[r].body)
           found == Lookup(identifier, req[r].fault)
           failed == [message |-> "Internal Server Error"]
       IN IF Falsy(identifier)
          THEN Finish(r, 400, [message |-> "Product identifier is required"],
                      <<>>, NotPaged)
          ELSE IF found.threw
          THEN Finish(r, 500, failed, found.calls, NotPaged)
          ELSE IF found.product = 0
          THEN Finish(r, 404, [message |-> "Product not found"], found.calls, NotPaged)
          ELSE IF req[r].fault = "pricings"
          THEN Finish(r, 500, failed, Append(found.calls, "pricings"), NotPaged)
          ELSE \E latest \in LatestChoices :
                 Finish(r, 200,
                        JsonProduct(
                          normaliseColesProduct(products[found.product],
                                                PricingAt(latest[found.product]))),
                        Append(found.calls, "pricings"), NotPaged)
    /\ UNCHANGED <<masters, scraped, metric, cfg, pc, blocks, selected, worker,
                   results, summary, jaccVars, heroVars, dbVars, cacheVars>>

NextServer ==
    \/ \E r \in DOMAIN req : EnterCollection(r)
    \/ \E r \in DOMAIN req : ConnectResolved(r)
    \/ \E r \in DOMAIN req : GetProducts(r)
    \/ \E r \in DOMAIN req : GetProduct(r)

\* the server with database content ps and prs, no client yet, and requests rq
\* that have arrived
ServerLoaded(u, ps, prs, rq) ==
    /\ PipelineIdle
    /\ JaccIdle
    /\ HeroIdle
    /\ uri = u
    /\ products = ps
    /\ pricings = prs
    /\ client = 0 /\ connected = {} /\ clientsMade = 0
    /\ colesCollection = 0 /\ productPricingsCollection = 0
    /\ req = rq
    /\ resp = [r \in DOMAIN rq |-> <<>>]

\* a small catalogue: two products, the first with a pricing
SmallProducts ==
    << ProductDoc(OidLower, Str("P001"), Str("7"), Str("Apple"), Str("Dairy")),
       ProductDoc(OidB, Str("P002"), Num("7"), Str("banana"), Undefined) >>

SmallPricings == << PricingDoc(OidLower, 1, 1, Num("5")) >>

Kinds == {"getProducts", "getProduct"}

\* concurrent requests of either kind
NumRequests == 2

InitRace ==
    \E kinds \in [1..NumRequests -> Kinds] :
      ServerLoaded(TRUE, SmallProducts, SmallPricings,
                   [r \in 1..NumRequests |->
                      NewRequest(kinds[r], DefaultQuery, DefaultBody, "none")])

SpecRace == InitRace /\ [][NextServer]_vars

\* the products of the paging specification: at most this many
NumProducts == 3

ProductIds == <<"P001", "P002", "P003", "P004">>

\* the i-th product of the catalogue: the odd ones are apples of category Dairy
CatalogueDoc(i) ==
    ProductDoc(Oids[i], Str(ProductIds[i]), Undefined,
               IF i % 2 = 1 THEN Str("Apple") ELSE Str("banana"),
               IF i % 2 = 1 THEN Str("Dairy") ELSE Undefined)

Catalogue(n) == [i \in 1..n |-> CatalogueDoc(i)]

PageChoices == {QAbsent, QText, QInt(0 - 1), QInt(0), QInt(1), QInt(2)}
LimitChoices ==
    {QAbsent, QText, QInt(0 - 5), QInt(0), QInt(1), QInt(2), QInt(MAX_PAGE_SIZE),
     QInt(5 * MAX_PAGE_SIZE)}
PageSizeChoices == {QAbsent, QInt(2), QInt(5 * MAX_PAGE_SIZE)}

\* one request: a getProducts over a catalogue of 0..NumProducts products with
\* any paging parameters, filter and failing call, or a getProduct
InitPaging ==
    \E n \in 0..NumProducts, u \in BOOLEAN :
      \/ \E page \in PageChoices, limit \in LimitChoices, pageSize \in PageSizeChoices,
            search \in {"", " APP "}, category \in {"", " Dairy "},
            fault \in {"none", "countDocuments", "aggregate"} :
           ServerLoaded(u, Catalogue(n), SmallPricings,
                        <<NewRequest("getProducts",
                                     [page |-> page, limit |-> limit, pageSize |-> pageSize,
                                      search |-> search, category |-> category],
                                     DefaultBody, fault)>>)
      \/ ServerLoaded(u, Catalogue(n), SmallPricings,
                      <<NewRequest("getProduct", DefaultQuery, DefaultBody, "none")>>)

SpecPaging == InitPaging /\ [][NextServer]_vars

\* a catalogue for the lookups: the keys of one identifier find different
\* products (the 24-hex string of the first product's _id is the product_id of
\* the third, "7" is a product_code, a product_id and, as a number, another
\* product_code)
LookupProducts ==
    << ProductDoc(OidLower, Str("P001"), Str("7"), Str("Apple"), Str("Dairy")),
       ProductDoc(OidB, Str("7"), Num("7"), Str("banana"), Undefined),
       ProductDoc(OidC, Str(OidUpper), Str("P001"), Undefined, Undefined) >>

RECURSIVE Pick(_, _, _)
\* the documents of seq whose index is in S, in the order of seq
Pick(seq, S, i) ==
    IF i > Len(seq) THEN <<>>
    ELSE (IF i \in S THEN <<seq[i]>> ELSE <<>>) \o Pick(seq, S, i + 1)

ProductIdChoices ==
    {Undefined, Null, Str(""), Num("0"), Str("P001"), Str("7"), Num("7"),
     Str("P999"), Str(OidLower), Str(OidUpper), Str(OidDigits)}

LookupFaults == {"none", "_id", "product_id", "product_code", "product_code#", "pricings"}

\* one request: a getProduct with any identifier and failing call over any part
\* of the lookup catalogue, or a getProducts
InitLookup ==
    \E S \in SUBSET (1..3), u \in BOOLEAN :
      \/ \E productId \in ProductIdChoices,
            product_id \in {Undefined, Str("P001"), Str("7")},
            fault \in LookupFaults :
           ServerLoaded(u, Pick(LookupProducts, S, 1), SmallPricings,
                        <<NewRequest("getProduct", DefaultQuery,
                                     [productId |-> productId, product_id |-> product_id],
                                     fault)>>)
      \/ ServerLoaded(u, Pick(LookupProducts, S, 1), SmallPricings,
                      <<NewRequest("getProducts", DefaultQuery, DefaultBody, "none")>>)

SpecLookup == InitLookup /\ [][NextServer]_vars

\* the dates of a pricing document: 0 when the document has none
Dates == {0, 1, 2}

\* what a pricing document can have as current_price
Prices == {Num("5"), Num("6"), Num("0"), NaNValue, Infinity, Str("5"), Null, Undefined}

\* one request of either kind over two products and up to two pricing
\* documents, the first of the first product
InitPricing ==
    \E kind \in Kinds :
      \E prs \in {<<>>}
           \cup {<<PricingDoc(OidLower, c, d, p)>> : c \in Dates, d \in Dates, p \in Prices}
           \cup {<<PricingDoc(OidLower, x[1], x[2], x[3]), PricingDoc(x[4], x[5], x[6], x[7])>> :
                   x \in Dates \X Dates \X Prices \X {OidLower, OidB} \X Dates \X Dates \X Prices} :
        ServerLoaded(TRUE, SmallProducts, prs,
                     <<NewRequest(kind, DefaultQuery, DefaultBody, "none")>>)

SpecPricing == InitPricing /\ [][NextServer]_vars

-----------------------------------------------------------------------------
(* C20: across any interleaving of concurrent getProducts/getProduct       *)
(* requests at most one MongoClient is constructed while the connection    *)
(* stays up, and both cached collection handles belong to that client.     *)
C20_SingleClient ==
    /\ clientsMade <= 1
    /\ colesCollection # 0 => colesCollection = client
    /\ productPricingsCollection # 0 => productPricingsCollection = client
    /\ (colesCollection # 0 /\ productPricingsCollection # 0)
         => colesCollection = productPricingsCollection

\* a second MongoClient is constructed while the first is connecting
C20_SecondClient ==
    /\ clientsMade = 2
    /\ connected = {}

\* every request is answered and the two cached handles are of different clients
C20_HandlesDiffer ==
    /\ \A r \in DOMAIN req : req[r].pc = "done"
    /\ DOMAIN req # {}
    /\ colesCollection # 0 /\ productPricingsCollection # 0
    /\ colesCollection # productPricingsCollection

-----------------------------------------------------------------------------
\* the responses sent to getProducts requests, each with its request
ProductsResponses ==
    {<<r, i>> \in (DOMAIN req) \X (1..2) :
       req[r].kind = "getProducts" /\ i \in DOMAIN resp[r]}

(* C16: every response sent by getProducts, whatever the outcome (products *)
(* found, none found, or an exception while querying), is an object with   *)
(* an items array and the pagination metadata page, pageSize, total and    *)
(* totalPages.                                                             *)
C16_StandardResponse ==
    \A x \in ProductsResponses :
      {"items", "page", "pageSize", "total", "totalPages"}
        \subseteq DOMAIN resp[x[1]][x[2]].body

\* the request carries page, limit or pageSize
Paging(r) ==
    Truthy(req[r].query.page) \/ Truthy(req[r].query.limit) \/ Truthy(req[r].query.pageSize)

(* C19: for a getProducts request carrying page, limit or pageSize, every  *)
(* 200 or 404 response reports page >= 1, a pageSize within 1..100 that is *)
(* the $limit applied to the query, total the number of products matching  *)
(* the filter, totalPages = max(1, ceil(total / pageSize)), and the $skip  *)
(* applied is (page - 1) * pageSize.                                       *)
C19_Pagination ==
    \A x \in ProductsResponses :
      LET r == x[1]
          out == resp[r][x[2]]
      IN (Paging(r) /\ out.status \in {200, 404}) =>
           /\ out.body.page >= 1
           /\ out.body.pageSize \in 1..MAX_PAGE_SIZE
           /\ req[r].applied.paged
           /\ out.body.pageSize = req[r].applied.limit
           /\ out.body.total = Cardinality(Matching(req[r].query))
           /\ out.body.totalPages = Max(1, CeilDiv(out.body.total, out.body.pageSize))
           /\ req[r].applied.skip = (out.body.page - 1) * out.body.pageSize

\* C19 of the 200 responses alone
C19_Found ==
    \A x \in ProductsResponses :
      LET r == x[1]
          out == resp[r][x[2]]
      IN (Paging(r) /\ out.status = 200) =>
           /\ out.body.page >= 1
           /\ out.body.pageSize \in 1..MAX_PAGE_SIZE
           /\ req[r].applied.paged
           /\ out.body.pageSize = req[r].applied.limit
           /\ out.body.total = Cardinality(Matching(req[r].query))
           /\ out.body.totalPages = Max(1, CeilDiv(out.body.total, out.body.pageSize))
           /\ req[r].applied.skip = (out.body.page - 1) * out.body.pageSize
           /\ Len(out.body.items) <= out.body.pageSize

\* a 404 for a page past the last one, of a filter that products match
C19_PastLastPage ==
    \E x \in ProductsResponses :
      /\ resp[x[1]][x[2]].status = 404
      /\ Paging(x[1])
      /\ Matching(req[x[1]].query) # {}

-----------------------------------------------------------------------------
\* the body names the product: productId or product_id is there
Given(body) ==
    body.productId.t \notin {"undefined", "null"} \/ body.product_id.t \notin {"undefined", "null"}

\* the lookups that apply to the identifier, in the order they are tried
KeysOf(identifier) ==
    (IF IsHex24(identifier) THEN <<"_id">> ELSE <<>>)
      \o <<"product_id", "product_code">>
      \o (IF identifier.t \in {"string", "number"} /\ ToNumber(identifier) # NaNValue
          THEN <<"product_code#">> ELSE <<>>)

\* the product the lookup finds, 0 when it misses
HitOf(key, identifier) ==
    CASE key = "_id" -> FindById(ObjectIdOf(identifier.v))
      [] key = "product_id" -> FindOne("product_id", identifier)
      [] key = "product_code" -> FindOne("product_code", identifier)
      [] key = "product_code#" -> FindOne("product_code", ToNumber(identifier))

\* the first lookup that throws or finds a product, one past the last if none
StopsAt(keys, identifier, fault) ==
    LET ends == {i \in DOMAIN keys : keys[i] = fault \/ HitOf(keys[i], identifier) # 0}
    IN IF ends = {} THEN Len(keys) + 1 ELSE CHOOSE i \in ends : \A j \in ends : i <= j

\* the normalised forms of the product with a latest pricing of its
NormalisedOf(i) ==
    IF PricingsOf(products[i]._id) = {}
    THEN {JsonProduct(normaliseColesProduct(products[i], NoPricing))}
    ELSE {JsonProduct(normaliseColesProduct(products[i], pricings[j])) :
            j \in FirstPricings(products[i]._id)}

(* C17: getProduct sends exactly one response per request: 400 when        *)
(* neither productId nor product_id is given in the body; otherwise it     *)
(* tries, in this order, _id (only for a 24-hex identifier), product_id,   *)
(* product_code, then numeric product_code, and answers with the           *)
(* normalised first product found, querying no later key once one matches; *)
(* 404 only when all applicable lookups miss; 500 when any step throws.    *)
C17_LookupOrder ==
    \A r \in DOMAIN req :
      req[r].kind = "getProduct" =>
        /\ Len(resp[r]) = (IF req[r].pc = "done" THEN 1 ELSE 0)
        /\ Len(resp[r]) = 1 =>
             LET out == resp[r][1]
                 identifier == IdentifierOf(req[r].body)
                 keys == KeysOf(identifier)
                 n == StopsAt(keys, identifier, req[r].fault)
                 found == IF n <= Len(keys) /\ keys[n] # req[r].fault
                          THEN HitOf(keys[n], identifier) ELSE 0
             IN IF ~uri THEN out.status = 500
                ELSE IF ~Given(req[r].body) THEN out.status = 400 /\ req[r].calls = <<>>
                ELSE IF n > Len(keys) THEN out.status = 404 /\ req[r].calls = keys
                ELSE IF found = 0 THEN out.status = 500 /\ req[r].calls = SubSeq(keys, 1, n)
                ELSE /\ req[r].calls = Append(SubSeq(keys, 1, n), "pricings")
                     /\ IF req[r].fault = "pricings" THEN out.status = 500
                        ELSE out.status = 200 /\ out.body \in NormalisedOf(found)

\* the findOne by _id throws and the request is answered as if it had missed
C17_SwallowedThrow ==
    \E r \in DOMAIN req :
      /\ req[r].kind = "getProduct" /\ req[r].fault = "_id"
      /\ Len(req[r].calls) > 1 /\ req[r].calls[1] = "_id"
      /\ Len(resp[r]) = 1 /\ resp[r][1].status = 200

\* product_id names a product and the request is answered 400, productId being ''
C17_EmptyProductId ==
    \E r \in DOMAIN req :
      /\ req[r].kind = "getProduct"
      /\ req[r].body.productId = Str("") /\ FindOne("product_id", req[r].body.product_id) # 0
      /\ Len(resp[r]) = 1 /\ resp[r][1].status = 400

-----------------------------------------------------------------------------
\* the products of the 200 responses: the items of getProducts and the body of
\* getProduct
ReturnedProducts ==
    UNION {IF resp[r][1].status # 200 THEN {}
           ELSE IF req[r].kind = "getProducts"
           THEN {resp[r][1].body.items[i] : i \in DOMAIN resp[r][1].body.items}
           ELSE {resp[r][1].body} :
           r \in {q \in DOMAIN req : resp[q] # <<>>}}

\* the date of a pricing record: collected_at, created_datetime when it is absent
DateOf(p) == IF p.collected_at # 0 THEN p.collected_at ELSE p.created_datetime

\* the latest pricing records of the product: those of the greatest date
LatestOf(id) ==
    {i \in PricingsOf(id) : \A j \in PricingsOf(id) : DateOf(pricings[j]) <= DateOf(pricings[i])}

\* the price is a valid number
ValidPrice(x) == x.t = "number" /\ x # NaNValue

(* C18: the current_price of every product returned by getProducts and     *)
(* getProduct is the current_price of the product's latest pricing record  *)
(* (greatest collected_at, created_datetime where collected_at is absent), *)
(* is 0 exactly when the product has no pricing record or that record's    *)
(* current_price is not a valid number, and is never NaN or null.          *)
C18_LatestPrice ==
    \A item \in ReturnedProducts :
      /\ item.current_price \notin {NaNValue, Null}
      /\ IF PricingsOf(item._id) = {} THEN item.current_price = Num("0")
         ELSE \E i \in LatestOf(item._id) :
                IF ValidPrice(pricings[i].current_price)
                THEN /\ item.current_price = pricings[i].current_price
                     /\ item.current_price # Num("0")
                ELSE item.current_price = Num("0")

\* the latest record has the price Infinity and the product is returned with
\* the price null
C18_InfinitePrice ==
    \E item \in ReturnedProducts :
      /\ item.current_price = Null
      /\ \A i \in PricingsOf(item._id) : pricings[i].current_price = Infinity

\* a record without collected_at is newer by its created_datetime than the
\* record with collected_at, and the product is returned with the older price
C18_OlderPrice ==
    \E item \in ReturnedProducts :
      \E i \in LatestOf(item._id), j \in PricingsOf(item._id) :
        /\ LatestOf(item._id) = {i}
        /\ pricings[i].collected_at = 0
        /\ pricings[i].current_price = Num("6")
        /\ pricings[j].current_price = Num("5")
        /\ item.current_price = Num("5")

\* the latest record has the price 0, a valid number
C18_ZeroPrice ==
    \E item \in ReturnedProducts :
      /\ item.current_price = Num("0")
      /\ PricingsOf(item._id) # {}
      /\ \A i \in PricingsOf(item._id) : pricings[i].current_price = Num("0")

-----------------------------------------------------------------------------
(* ProductHeroSection: the useEffect on the product id and fetchProduct *)

\* the ids the component is given; "" is no id (undefined)
HeroIds == {"", "A", "B"}

\* the calls of fetchProduct the model follows: at most this many
MaxFetches == 3

\* the product the backend has for the id
ApiProduct(id) == [t |-> "object", v |-> id]

\* the calls of fetchProduct that have not reached the end of their finally
InFlight == {f \in DOMAIN fetches : fetches[f].at # "done"}

\* the component after its first render: useState(null), useState(true), and
\* the effect of the render to run
HeroMounted(id) ==
    [mounted |-> TRUE, resolvedProductId |-> id, product |-> Null, loading |-> TRUE,
     effect |-> TRUE]

\* the effect of the last render: fetchProduct() up to its return or its first
\* await
RunEffect ==
    /\ hero.effect
    /\ IF hero.resolvedProductId = ""
       THEN /\ hero' = [hero EXCEPT !.effect = FALSE, !.loading = FALSE]
            /\ UNCHANGED fetches
       ELSE /\ hero' = [hero EXCEPT !.effect = FALSE, !.loading = TRUE]
            /\ fetches' = Append(fetches,
                                 [id |-> hero.resolvedProductId, at |-> "fetch",
                                  got |-> FALSE, raced |-> InFlight # {}])
    /\ UNCHANGED <<masters, scraped, metric, cfg, pc, blocks, selected, worker,
                   results, summary, jaccVars, serverVars>>

\* the parent renders the component with another product id; the effect of
\* the render before has run
ChangeProductId(id) ==
    /\ hero.mounted
    /\ ~hero.effect
    /\ id # hero.resolvedProductId
    /\ id # "" => Len(fetches) < MaxFetches
    /\ hero' = [hero EXCEPT !.resolvedProductId = id, !.effect = TRUE]
    /\ UNCHANGED <<masters, scraped, metric, cfg, pc, blocks, selected, worker,
                   results, summary, jaccVars, serverVars, fetches>>

\* await fetch(...) settles: a response that is ok, a response that is not, or
\* a rejection, which goes through catch and finally
FetchSettled(f, outcome) ==
    /\ f \in DOMAIN fetches
    /\ fetches[f].at = "fetch"
    /\ IF outcome = "rejected"
       THEN /\ fetches' = [fetches EXCEPT ![f].at = "done"]
            /\ hero' = [hero EXCEPT !.loading = FALSE]
       ELSE /\ fetches' = [fetches EXCEPT ![f].at = IF outcome = "ok" THEN "json" ELSE "text"]
            /\ UNCHANGED hero
    /\ UNCHANGED <<masters, scraped, metric, cfg, pc, blocks, selected, worker,
                   results, summary, jaccVars, serverVars>>

\* await response.json() or await response.text() settles, and the finally
BodySettled(f, outcome) ==
    /\ f \in DOMAIN fetches
    /\ fetches[f].at \in {"json", "text"}
    /\ IF fetches[f].at = "json" /\ outcome = "ok"
       THEN /\ hero' = [hero EXCEPT !.product = ApiProduct(fetches[f].id), !.loading = FALSE]
            /\ fetches' = [fetches EXCEPT ![f].at = "done", ![f].got = TRUE]
       ELSE /\ hero' = [hero EXCEPT !.loading = FALSE]
            /\ fetches' = [fetches EXCEPT ![f].at = "done"]
    /\ UNCHANGED <<masters, scraped, metric, cfg, pc, blocks, selected, worker,
                   results, summary, jaccVars, serverVars>>

NextHero ==
    \/ RunEffect
    \/ \E id \in HeroIds : ChangeProductId(id)
    \/ \E f \in 1..MaxFetches, outcome \in {"ok", "not_ok", "rejected"} : FetchSettled(f, outcome)
    \/ \E f \in 1..MaxFetches, outcome \in {"ok", "rejected"} : BodySettled(f, outcome)

InitHero ==
    /\ PipelineIdle
    /\ JaccIdle
    /\ ServerIdle
    /\ \E id \in HeroIds : hero = HeroMounted(id)
    /\ fetches = <<>>

SpecHero == InitHero /\ [][NextHero]_vars

-----------------------------------------------------------------------------
\* every effect has run and every fetch has settled
Settled == ~hero.effect /\ InFlight = {}

\* the product id changed while the fetch for an earlier one was in flight
Overlapped == \E f \in DOMAIN fetches : fetches[f].raced

\* the fetch for the latest product id is the last one started, and it got
\* the product
LatestFetched ==
    /\ fetches # <<>>
    /\ hero.resolvedProductId # ""
    /\ fetches[Len(fetches)].id = hero.resolvedProductId
    /\ fetches[Len(fetches)].got

(* C21: when productId changes while the fetch for an earlier productId is *)
(* in flight, then once all fetches have settled the product in state is   *)
(* the one fetched for the latest productId and loading is false, whatever *)
(* order the responses arrive in; and loading is never true once no fetch  *)
(* is in flight.                                                           *)
C21_LatestProduct ==
    /\ (Settled /\ Overlapped /\ LatestFetched) =>
          /\ hero.product = ApiProduct(hero.resolvedProductId)
          /\ ~hero.loading
    /\ (hero.mounted /\ ~hero.effect /\ InFlight = {}) => ~hero.loading

\* C21 of loading alone
C21_LoadingSettles ==
    (hero.mounted /\ ~hero.effect /\ InFlight = {}) => ~hero.loading

\* every fetch got its product and the product in state is the one of an
\* earlier product id
C21_StaleProduct ==
    /\ Settled /\ Overlapped /\ LatestFetched
    /\ \A f \in DOMAIN fetches : fetches[f].got
    /\ hero.product # ApiProduct(hero.resolvedProductId)

\* the earlier fetch settles while the later one is in flight, and the
\* component shows the earlier product as loaded
C21_LoadedWhileFetching ==
    /\ ~hero.loading
    /\ ~hero.effect
    /\ InFlight # {}
    /\ hero.product.t = "object"
    /\ hero.product # ApiProduct(hero.resolvedProductId)

====
